---- MODULE Spec2Model ----
(***************************************************************************)
(* Texture level-of-detail helpers of the Path Tracing SDK                 *)
(* (TexLODHelpers.hlsli, kept here as src/unnamed/part_004): ray cones,    *)
(* ray differentials, refraction with total internal reflection, the      *)
(* spread angle from curvature, the anisotropic ellipse axes and the       *)
(* triangle curvature estimators.                                          *)
(*                                                                         *)
(* Numbers.  A float is modelled as an extended rational <<n, d>> in       *)
(* lowest terms with d >= 0:  d > 0 is the real number n/d, <<1, 0>> is    *)
(* +Inf, <<-1, 0>> is -Inf and <<0, 0>> is NaN.  The arithmetic is exact   *)
(* (no float32 rounding) and follows IEEE 754 on the special values:       *)
(* x/0 is +-Inf, 0/0, Inf-Inf and 0*Inf are NaN, every comparison with     *)
(* NaN is false.  There is one zero (no -0).  The half-precision packing   *)
(* of the ray cone payload (f32tof16 / f16tof32) is modelled bit by bit.   *)
(* sqrt, cos, sin and acos are evaluated only where their value is an      *)
(* exact rational; the input sets below are chosen so.                     *)
(***************************************************************************)
EXTENDS Integers, Sequences, FiniteSets, TLC

(***************************************************************************)
(* Extended rational arithmetic (the HLSL float operators).                *)
(***************************************************************************)
IAbs(i) ==
    IF i < 0 THEN -i ELSE i

ISign(i) ==
    IF i > 0 THEN 1 ELSE IF i < 0 THEN -1 ELSE 0

RECURSIVE GCD(_, _)
GCD(a, b) ==
    IF b = 0 THEN a ELSE GCD(b, a % b)

\* n/d in lowest terms; d = 0 keeps only the sign of n.
R(n, d) ==
    IF d = 0 THEN <<ISign(n), 0>>
    ELSE LET s == IF d < 0 THEN -1 ELSE 1
             g == GCD(IAbs(n), IAbs(d))
         IN  <<(s * n) \div g, (s * d) \div g>>

Zero == <<0, 1>>
One == <<1, 1>>
Two == <<2, 1>>
Three == <<3, 1>>
Half == <<1, 2>>
NaN == <<0, 0>>
PosInf == <<1, 0>>
NegInf == <<-1, 0>>

IsNaN(a) ==
    a = NaN

IsFinite(a) ==
    a[2] > 0

RNeg(a) ==
    <<-a[1], a[2]>>

\* Sums and products cancel common factors first, to keep the integers small.
RAdd(a, b) ==
    IF a[2] = 0 /\ b[2] = 0
    THEN (IF a = b THEN a ELSE NaN)
    ELSE IF a[2] = 0 THEN a
    ELSE IF b[2] = 0 THEN b
    ELSE LET g == GCD(a[2], b[2])
         IN  R(a[1] * (b[2] \div g) + b[1] * (a[2] \div g), (a[2] \div g) * b[2])

RSub(a, b) ==
    RAdd(a, RNeg(b))

RMul(a, b) ==
    IF a[2] = 0 \/ b[2] = 0 THEN R(a[1] * b[1], 0)
    ELSE LET g1 == GCD(IAbs(a[1]), b[2])
             g2 == GCD(IAbs(b[1]), a[2])
         IN  R((a[1] \div g1) * (b[1] \div g2), (a[2] \div g2) * (b[2] \div g1))

\* 1/a: 1/0 = +Inf, 1/Inf = 0, 1/NaN = NaN.
RRcp(a) ==
    IF a[1] > 0 THEN <<a[2], a[1]>>
    ELSE IF a[1] < 0 THEN <<-a[2], -a[1]>>
    ELSE IF a[2] = 0 THEN NaN ELSE PosInf

RDiv(a, b) ==
    RMul(a, RRcp(b))

\* a < b, false when either is NaN.
RLt(a, b) ==
    /\ ~IsNaN(a)
    /\ ~IsNaN(b)
    /\ a # b
    /\ IF a[2] = 0 THEN a = NegInf
       ELSE IF b[2] = 0 THEN b = PosInf
       ELSE LET g == GCD(a[2], b[2])
            IN  a[1] * (b[2] \div g) < b[1] * (a[2] \div g)

RGt(a, b) ==
    RLt(b, a)

RLe(a, b) ==
    ~IsNaN(a) /\ ~IsNaN(b) /\ ~RLt(b, a)

RGe(a, b) ==
    RLe(b, a)

\* abs(x)
RAbs(a) ==
    <<IAbs(a[1]), a[2]>>

\* sign(x): -1, 0 or 1; sign(0) = 0.
RSign(a) ==
    <<ISign(a[1]), 1>>

\* min(a, b) and max(a, b): a NaN operand yields the other operand.
RMin(a, b) ==
    IF IsNaN(a) THEN b ELSE IF IsNaN(b) THEN a ELSE IF RLt(b, a) THEN b ELSE a

RMax(a, b) ==
    IF IsNaN(a) THEN b ELSE IF IsNaN(b) THEN a ELSE IF RLt(a, b) THEN b ELSE a

\* The integer square root of n, by bisection of lo..hi.
RECURSIVE ISqrtIn(_, _, _)
ISqrtIn(n, lo, hi) ==
    IF lo >= hi THEN lo
    ELSE IF ((lo + hi + 1) \div 2) * ((lo + hi + 1) \div 2) <= n
         THEN ISqrtIn(n, (lo + hi + 1) \div 2, hi)
         ELSE ISqrtIn(n, lo, ((lo + hi + 1) \div 2) - 1)

ISqrt(n) ==
    ISqrtIn(n, 0, IF n < 46340 THEN n ELSE 46340)

IsSquare(a) ==
    /\ a[2] > 0
    /\ a[1] >= 0
    /\ ISqrt(a[1]) * ISqrt(a[1]) = a[1]
    /\ ISqrt(a[2]) * ISqrt(a[2]) = a[2]

\* The arguments at which sqrt is an extended rational.
SqrtExact(a) ==
    a[2] = 0 \/ a[1] < 0 \/ IsSquare(a)

\* sqrt(x): NaN for x < 0 and for NaN, +Inf for +Inf; evaluated at squares only.
RSqrt(a) ==
    IF a = PosInf THEN PosInf
    ELSE IF a[2] = 0 \/ a[1] < 0 THEN NaN
    ELSE IF IsSquare(a) THEN <<ISqrt(a[1]), ISqrt(a[2])>>
    ELSE CHOOSE r \in {} : TRUE

\* cos, sin and acos, evaluated where the value is rational.
RCos(a) ==
    IF a[2] = 0 THEN NaN
    ELSE IF a = Zero THEN One
    ELSE CHOOSE r \in {} : TRUE

RSin(a) ==
    IF a[2] = 0 THEN NaN
    ELSE IF a = Zero THEN Zero
    ELSE CHOOSE r \in {} : TRUE

\* acos at the cosines the model uses, to five decimals (pi/2 = 1.57080).
RAcos(a) ==
    IF a[2] = 0 \/ RLt(One, a) \/ RLt(a, <<-1, 1>>) THEN NaN
    ELSE IF a = One THEN Zero
    ELSE IF a = Zero THEN <<15708, 10000>>
    ELSE IF a = <<3, 5>> THEN <<9273, 10000>>
    ELSE IF a = <<4, 5>> THEN <<6435, 10000>>
    ELSE IF a = <<9, 25>> THEN <<12025, 10000>>
    ELSE IF a = <<12, 25>> THEN <<10701, 10000>>
    ELSE IF a = <<16, 25>> THEN <<8763, 10000>>
    ELSE CHOOSE r \in {} : TRUE

(***************************************************************************)
(* float2 / float3 vectors: tuples of extended rationals.                  *)
(***************************************************************************)
V3(x, y, z) ==
    <<x, y, z>>

VZero3 ==
    <<Zero, Zero, Zero>>

VAdd(u, v) ==
    [i \in DOMAIN u |-> RAdd(u[i], v[i])]

VSub(u, v) ==
    [i \in DOMAIN u |-> RSub(u[i], v[i])]

VNeg(u) ==
    [i \in DOMAIN u |-> RNeg(u[i])]

VScale(u, k) ==
    [i \in DOMAIN u |-> RMul(u[i], k)]

Dot3(u, v) ==
    RAdd(RAdd(RMul(u[1], v[1]), RMul(u[2], v[2])), RMul(u[3], v[3]))

Dot2(u, v) ==
    RAdd(RMul(u[1], v[1]), RMul(u[2], v[2]))

Cross(u, v) ==
    << RSub(RMul(u[2], v[3]), RMul(u[3], v[2])),
       RSub(RMul(u[3], v[1]), RMul(u[1], v[3])),
       RSub(RMul(u[1], v[2]), RMul(u[2], v[1])) >>

Length3(u) ==
    RSqrt(Dot3(u, u))

Length2(u) ==
    RSqrt(Dot2(u, u))

\* normalize(v) = v / length(v); the zero vector yields NaN components.
Normalize3(u) ==
    VScale(u, RRcp(Length3(u)))

Normalize2(u) ==
    VScale(u, RRcp(Length2(u)))

VFinite(u) ==
    \A i \in DOMAIN u : IsFinite(u[i])

(***************************************************************************)
(* State.  One ray is followed: the ray cone and the ray differential it   *)
(* carries in its payload, the hit being shaded with what each family   *)
(* returned for it, the last helper that was called with its arguments and *)
(* results, and the number of calls made so far.  f16round   *)
(* is the rounding of f32tof16, which the shading language leaves to the   *)
(* target: round to nearest even or round toward zero.                     *)
(***************************************************************************)
VARIABLES f16round, cone, rayDiff, hit, call, steps

vars == <<f16round, cone, rayDiff, hit, call, steps>>

RoundingModes ==
    {"rne", "rtz"}

(***************************************************************************)
(* Half precision: f16tof32 and f32tof16 on 16-bit codes                   *)
(* (1 sign bit, 5 exponent bits, 10 fraction bits).                        *)
(***************************************************************************)
RECURSIVE Pow2(_)
Pow2(k) ==
    IF k = 0 THEN 1 ELSE 2 * Pow2(k - 1)

f16tof32(c) ==
    LET s == IF c >= 32768 THEN -1 ELSE 1
        e == (c \div 1024) % 32
        m == c % 1024
    IN  IF e = 31 THEN (IF m = 0 THEN <<s, 0>> ELSE NaN)
        ELSE IF e = 0 THEN R(s * m, Pow2(24))
        ELSE IF e >= 25 THEN R(s * (1024 + m) * Pow2(e - 25), 1)
        ELSE R(s * (1024 + m), Pow2(25 - e))

\* n/d >= 2^k, for n >= 0 and d > 0.
GePow2(n, d, k) ==
    IF k >= 0 THEN n \div Pow2(k) >= d ELSE n >= (d + Pow2(-k) - 1) \div Pow2(-k)

\* (n/d) * 2^j for j >= 0, and (n/d) / 2^j; the result is in lowest terms when n/d is.
RECURSIVE MulPow2(_, _, _)
MulPow2(n, d, j) ==
    IF j = 0 THEN <<n, d>>
    ELSE IF d % 2 = 0 THEN MulPow2(n, d \div 2, j - 1)
    ELSE MulPow2(2 * n, d, j - 1)

RECURSIVE DivPow2(_, _, _)
DivPow2(n, d, j) ==
    IF j = 0 THEN <<n, d>>
    ELSE IF n % 2 = 0 THEN DivPow2(n \div 2, d, j - 1)
    ELSE DivPow2(n, 2 * d, j - 1)

\* The exponent of n/d, not below that of the smallest normal half (-14).
RECURSIVE HalfExponent(_, _, _)
HalfExponent(n, d, k) ==
    IF k = -14 \/ GePow2(n, d, k) THEN k ELSE HalfExponent(n, d, k - 1)

\* The code of the magnitude n/d > 0: significand in units of the last place,
\* rounded as f16round says; a carry out of the significand raises the exponent
\* and out of the largest exponent yields the code of Inf.
HalfMagnitude(n, d) ==
    IF GePow2(n, d, 16) THEN (IF f16round = "rne" THEN 31744 ELSE 31743)
    ELSE LET e == HalfExponent(n, d, 15)
             sig == IF e <= 10 THEN MulPow2(n, d, 10 - e) ELSE DivPow2(n, d, e - 10)
             q == sig[1] \div sig[2]
             twiceFrac == 2 * (sig[1] - q * sig[2])
             r == IF f16round = "rtz" THEN q
                  ELSE IF twiceFrac > sig[2] THEN q + 1
                  ELSE IF twiceFrac = sig[2] THEN q + (q % 2)
                  ELSE q
         IN  (e + 14) * 1024 + r

f32tof16(x) ==
    IF x = NaN THEN 32256
    ELSE IF x = PosInf THEN 31744
    ELSE IF x = NegInf THEN 64512
    ELSE IF x[1] = 0 THEN 0
    ELSE IF x[1] > 0 THEN HalfMagnitude(x[1], x[2])
    ELSE 32768 + HalfMagnitude(-x[1], x[2])

(***************************************************************************)
(* struct RayCone, with USE_RAYCONES_WITH_FP16_IN_RAYPAYLOAD defined: the  *)
(* 32-bit word widthSpreadAngleFP16 is the pair <<high half, low half>>.   *)
(***************************************************************************)
getWidth(rc) ==
    f16tof32(rc.widthSpreadAngleFP16[1])

getSpreadAngle(rc) ==
    f16tof32(rc.widthSpreadAngleFP16[2])

make(width, angle) ==
    [widthSpreadAngleFP16 |-> <<f32tof16(width), f32tof16(angle)>>]

\* propagateDistance that grows the width with the square of the distance.
propagateDistance_squaredDistance(rc, hitT) ==
    LET angle == getSpreadAngle(rc)
        width == getWidth(rc)
    IN  make(RAdd(RMul(RMul(angle, hitT), hitT), width), angle)

\* propagateDistance with the width of the incoming cone dropped.
propagateDistance_noWidth(rc, hitT) ==
    LET angle == getSpreadAngle(rc)
    IN  make(RMul(angle, hitT), angle)

propagateDistance(rc, hitT) ==
    LET angle == getSpreadAngle(rc)
        width == getWidth(rc)
    IN  make(RAdd(RMul(angle, hitT), width), angle)

\* addToSpreadAngle that overwrites the spread angle instead of adding to it.
addToSpreadAngle_overwrite(rc, surfaceSpreadAngle) ==
    make(getWidth(rc), surfaceSpreadAngle)

addToSpreadAngle(rc, surfaceSpreadAngle) ==
    LET angle == getSpreadAngle(rc)
    IN  make(getWidth(rc), RAdd(angle, surfaceSpreadAngle))

\* The largest k <= k0 with n/d >= 2^k, for n > 0 and d > 0.
RECURSIVE FloorLog2(_, _, _)
FloorLog2(n, d, k) ==
    IF GePow2(n, d, k) THEN k ELSE FloorLog2(n, d, k - 1)

\* log2(x) as exponent and mantissa: exp + log2(mant) with mant in [1, 2);
\* log2(0) = -Inf, log2(+Inf) = +Inf, log2 of a negative number or NaN is NaN.
Log2(x) ==
    IF x = NaN \/ x[1] < 0 THEN [exp |-> NaN, mant |-> One]
    ELSE IF x = PosInf THEN [exp |-> PosInf, mant |-> One]
    ELSE IF x = Zero THEN [exp |-> NegInf, mant |-> One]
    ELSE LET e == FloorLog2(x[1], x[2], 20)
         IN  [exp |-> <<e, 1>>,
              mant |-> IF e >= 0 THEN DivPow2(x[1], x[2], e) ELSE MulPow2(x[1], x[2], -e)]

\* computeLOD that multiplies the width by the orientation term.
computeLOD_product(rc, triLODConstant, rayDir, normal, moreDetailOnSlopes) ==
    LET distTerm == RAbs(getWidth(rc))
        dotTerm == RAbs(Dot3(rayDir, normal))
        normalTerm == IF moreDetailOnSlopes THEN RSqrt(dotTerm) ELSE dotTerm
        l == Log2(RMul(distTerm, normalTerm))
    IN  [exp |-> RAdd(triLODConstant, l.exp), mant |-> l.mant]

\* lambda = triLODConstant + log2(distTerm / normalTerm), as exponent and mantissa.
computeLOD(rc, triLODConstant, rayDir, normal, moreDetailOnSlopes) ==
    LET distTerm == RAbs(getWidth(rc))
        dotTerm == RAbs(Dot3(rayDir, normal))
        normalTerm == IF moreDetailOnSlopes THEN RSqrt(dotTerm) ELSE dotTerm
        l == Log2(RDiv(distTerm, normalTerm))
    IN  [exp |-> RAdd(triLODConstant, l.exp), mant |-> l.mant]

(***************************************************************************)
(* struct RayDiff.                                                         *)
(***************************************************************************)
makeRayDiff(dOdx, dOdy, dDdx, dDdy) ==
    [dOdx |-> dOdx, dOdy |-> dOdy, dDdx |-> dDdx, dDdy |-> dDdy]

\* propagate that takes dt from the origin differentials before they are advanced.
propagate_projectFirst(rd, O, D, t, N) ==
    LET rcpDN == RDiv(One, Dot3(D, N))
        dtdx == RMul(RNeg(Dot3(rd.dOdx, N)), rcpDN)
        dtdy == RMul(RNeg(Dot3(rd.dOdy, N)), rcpDN)
        dodx == VAdd(VAdd(rd.dOdx, VScale(rd.dDdx, t)), VScale(D, dtdx))
        dody == VAdd(VAdd(rd.dOdy, VScale(rd.dDdy, t)), VScale(D, dtdy))
    IN  makeRayDiff(dodx, dody, rd.dDdx, rd.dDdy)

\* propagate that forgets to advance the origin differentials by t * dD.
propagate_noAdvance(rd, O, D, t, N) ==
    LET rcpDN == RDiv(One, Dot3(D, N))
        dodx == VAdd(rd.dOdx, VScale(D, RMul(RNeg(Dot3(rd.dOdx, N)), rcpDN)))
        dody == VAdd(rd.dOdy, VScale(D, RMul(RNeg(Dot3(rd.dOdy, N)), rcpDN)))
    IN  makeRayDiff(dodx, dody, rd.dDdx, rd.dDdy)

\* propagate with dot(D, N) clamped away from zero before the division.
propagate_clamped(rd, O, D, t, N) ==
    LET dodx0 == VAdd(rd.dOdx, VScale(rd.dDdx, t))
        dody0 == VAdd(rd.dOdy, VScale(rd.dDdy, t))
        dn == Dot3(D, N)
        eps == <<1, 100000>>
        rcpDN == RDiv(One, IF RLt(RAbs(dn), eps)
                           THEN (IF RLt(dn, Zero) THEN RNeg(eps) ELSE eps)
                           ELSE dn)
        dtdx == RMul(RNeg(Dot3(dodx0, N)), rcpDN)
        dtdy == RMul(RNeg(Dot3(dody0, N)), rcpDN)
    IN  makeRayDiff(VAdd(dodx0, VScale(D, dtdx)), VAdd(dody0, VScale(D, dtdy)),
                    rd.dDdx, rd.dDdy)

propagate(rd, O, D, t, N) ==
    LET dodx0 == VAdd(rd.dOdx, VScale(rd.dDdx, t))
        dody0 == VAdd(rd.dOdy, VScale(rd.dDdy, t))
        rcpDN == RDiv(One, Dot3(D, N))
        dtdx == RMul(RNeg(Dot3(dodx0, N)), rcpDN)
        dtdy == RMul(RNeg(Dot3(dody0, N)), rcpDN)
        dodx == VAdd(dodx0, VScale(D, dtdx))
        dody == VAdd(dody0, VScale(D, dtdy))
    IN  makeRayDiff(dodx, dody, rd.dDdx, rd.dDdy)

(***************************************************************************)
(* Refraction with total internal reflection, in 3D and in 2D.             *)
(***************************************************************************)
\* refractWithTIR that also rejects the critical angle (k = 0).
refractWithTIR_rejectCritical(rayDir, normal, eta) ==
    LET NdotD == Dot3(normal, rayDir)
        k == RSub(One, RMul(RMul(eta, eta), RSub(One, RMul(NdotD, NdotD))))
    IN  IF RLe(k, Zero)
        THEN [ok |-> FALSE, refractedRayDir |-> VZero3]
        ELSE [ok |-> TRUE,
              refractedRayDir |->
                  VSub(VScale(rayDir, eta), VScale(normal, RAdd(RMul(eta, NdotD), RSqrt(k))))]

refractWithTIR(rayDir, normal, eta) ==
    LET NdotD == Dot3(normal, rayDir)
        k == RSub(One, RMul(RMul(eta, eta), RSub(One, RMul(NdotD, NdotD))))
    IN  IF RLt(k, Zero)
        THEN [ok |-> FALSE, refractedRayDir |-> VZero3]
        ELSE [ok |-> TRUE,
              refractedRayDir |->
                  VSub(VScale(rayDir, eta), VScale(normal, RAdd(RMul(eta, NdotD), RSqrt(k))))]

refractWithTIR2D(rayDir, normal, eta) ==
    LET NdotD == Dot2(normal, rayDir)
        k == RSub(One, RMul(RMul(eta, eta), RSub(One, RMul(NdotD, NdotD))))
    IN  IF RLt(k, Zero)
        THEN [ok |-> FALSE, refractedRayDir |-> <<Zero, Zero>>]
        ELSE [ok |-> TRUE,
              refractedRayDir |->
                  VSub(VScale(rayDir, eta), VScale(normal, RAdd(RMul(eta, NdotD), RSqrt(k))))]

rotate2DPlusMinus(vec, angle) ==
    LET c == RCos(angle)
        s == RSin(angle)
        cx == RMul(c, vec[1])
        sy == RMul(s, vec[2])
        sx == RMul(s, vec[1])
        cy == RMul(c, vec[2])
    IN  [rotatedVecPlus |-> <<RSub(cx, sy), RAdd(sx, cy)>>,
         rotatedVecMinus |-> <<RAdd(cx, sy), RAdd(RNeg(sx), cy)>>]

orthogonal(vec) ==
    <<RNeg(vec[2]), vec[1]>>

\* Refraction of one bounding ray of the cone in 2D, with the tangential fallback.
refractBoundingRay(incidentDir2D, normal2D, eta) ==
    LET r == refractWithTIR2D(incidentDir2D, normal2D, eta)
    IN  IF r.ok THEN r.refractedRayDir
        ELSE Normalize2(VSub(incidentDir2D,
                             VScale(normal2D, Dot2(normal2D, incidentDir2D))))

\* computeRayConeForRefraction, in the order of its statements.  Each step hands
\* the values it has computed to the next one.
\* Last step: the signed spread angle and the width along the refracted direction.
refractedCone(refractedDir2D, hitPoint_u_x, hitPoint_l_x, normalSign, refractedDir2D_u, refractedDir2D_l) ==
    LET signA == IF RLt(RMul(RSub(RMul(refractedDir2D_u[1], refractedDir2D_l[2]),
                                  RMul(refractedDir2D_u[2], refractedDir2D_l[1])),
                             normalSign), Zero)
                 THEN One ELSE RNeg(One)
        spreadAngle == RMul(RAcos(Dot2(refractedDir2D_u, refractedDir2D_l)), signA)
        width == RAdd(RDiv(RMul(RNeg(hitPoint_u_x), refractedDir2D_u[2]),
                           Dot2(orthogonal(refractedDir2D), orthogonal(refractedDir2D_u))),
                      RDiv(RMul(hitPoint_l_x, refractedDir2D_l[2]),
                           Dot2(orthogonal(refractedDir2D), orthogonal(refractedDir2D_l))))
    IN  make(width, spreadAngle)

\* The two bounding rays refracted at the two rotated normals.
refractBoundingRays(refractedDir2D, incidentDir2D_u, incidentDir2D_l, hitPoint_u_x, hitPoint_l_x, normalSign, normal2D_u, normal2D_l, eta) ==
    refractedCone(refractedDir2D, hitPoint_u_x, hitPoint_l_x, normalSign,
                  refractBoundingRay(incidentDir2D_u, normal2D_u, eta),
                  refractBoundingRay(incidentDir2D_l, normal2D_l, eta))

\* The normals at the two hit points, rotated by half the normal spread angle.
rotateNormals(refractedDir2D, incidentDir2D_u, incidentDir2D_l, hitPoint_u_x, hitPoint_l_x, normalSign, normalSpreadAngle, eta) ==
    refractBoundingRays(refractedDir2D, incidentDir2D_u, incidentDir2D_l, hitPoint_u_x,
        hitPoint_l_x, normalSign,
        rotate2DPlusMinus(<<Zero, One>>,
            RMul(RMul(RNeg(normalSpreadAngle), normalSign), Half)).rotatedVecPlus,
        rotate2DPlusMinus(<<Zero, One>>,
            RMul(RMul(RNeg(normalSpreadAngle), normalSign), Half)).rotatedVecMinus,
        eta)

\* The side of the hit points decides the sign of the normal rotation.
orderHitPoints(refractedDir2D, incidentDir2D_u, incidentDir2D_l, hitPoint_u_x, hitPoint_l_x, normalSpreadAngle, eta) ==
    rotateNormals(refractedDir2D, incidentDir2D_u, incidentDir2D_l, hitPoint_u_x,
        hitPoint_l_x,
        IF RGt(hitPoint_u_x, hitPoint_l_x) THEN One ELSE RNeg(One),
        normalSpreadAngle, eta)

\* Where the two bounding rays, started at tu and tl, meet the x axis.
intersectBoundingRays(refractedDir2D, incidentDir2D_u, incidentDir2D_l, tu, tl, normalSpreadAngle, eta) ==
    orderHitPoints(refractedDir2D, incidentDir2D_u, incidentDir2D_l,
        RAdd(tu[1], RMul(incidentDir2D_u[1], RDiv(RNeg(tu[2]), incidentDir2D_u[2]))),
        RAdd(tl[1], RMul(incidentDir2D_l[1], RDiv(RNeg(tl[2]), incidentDir2D_l[2]))),
        normalSpreadAngle, eta)

\* The bounding rays of the incident cone in the 2D frame.
boundingRays(width, spreadAngle, refractedDir2D, incidentDir2D, normalSpreadAngle, eta) ==
    LET widthSign == IF RGt(width, Zero) THEN One ELSE RNeg(One)
        angle == RMul(RMul(spreadAngle, widthSign), Half)
        tu == VScale(VScale(orthogonal(incidentDir2D), width), Half)
    IN  intersectBoundingRays(refractedDir2D,
            rotate2DPlusMinus(incidentDir2D, angle).rotatedVecPlus,
            rotate2DPlusMinus(incidentDir2D, angle).rotatedVecMinus,
            tu, VNeg(tu), normalSpreadAngle, eta)

\* The incident and refracted directions in the frame (xAxis, yAxis = normal).
projectToPlane(rayCone, rayDir, normal, normalSpreadAngle, eta, refractedRayDir, xAxis) ==
    boundingRays(getWidth(rayCone), getSpreadAngle(rayCone),
        <<Dot3(refractedRayDir, xAxis), Dot3(refractedRayDir, normal)>>,
        <<Dot3(rayDir, xAxis), Dot3(rayDir, normal)>>,
        normalSpreadAngle, eta)

computeRayConeForRefraction(rayCone, rayOrg, rayDir, hitPoint, normal, normalSpreadAngle, eta, refractedRayDir) ==
    projectToPlane(rayCone, rayDir, normal, normalSpreadAngle, eta, refractedRayDir,
        Normalize3(VSub(rayDir, VScale(normal, Dot3(normal, rayDir)))))

\* The result of a function with out and inout parameters is a record of them.
\* refractRayCone that hands back an empty cone on total internal reflection.
refractRayCone_resetOnTIR(rayCone, rayOrg, rayDir, hitPoint, normal, normalSpreadAngle, eta) ==
    LET r == refractWithTIR(rayDir, normal, eta)
    IN  IF ~r.ok
        THEN [ret |-> FALSE, rayCone |-> make(Zero, Zero),
              refractedRayDir |-> r.refractedRayDir]
        ELSE [ret |-> TRUE,
              rayCone |-> computeRayConeForRefraction(rayCone, rayOrg, rayDir, hitPoint,
                              normal, normalSpreadAngle, eta, r.refractedRayDir),
              refractedRayDir |-> r.refractedRayDir]

refractRayCone(rayCone, rayOrg, rayDir, hitPoint, normal, normalSpreadAngle, eta) ==
    LET r == refractWithTIR(rayDir, normal, eta)
    IN  IF ~r.ok
        THEN [ret |-> FALSE, rayCone |-> rayCone, refractedRayDir |-> r.refractedRayDir]
        ELSE [ret |-> TRUE,
              rayCone |-> computeRayConeForRefraction(rayCone, rayOrg, rayDir, hitPoint,
                              normal, normalSpreadAngle, eta, r.refractedRayDir),
              refractedRayDir |-> r.refractedRayDir]

(***************************************************************************)
(* Ray differentials: normal differentials and refraction (Igehy 16-19).   *)
(***************************************************************************)
\* Lu and Lv of computeBarycentricDifferentials: the plane equations of the
\* triangle edges, scaled to be 1 at the opposite vertex.
Lu(edge01, edge02, faceNormalW) ==
    VScale(Cross(edge02, faceNormalW), RRcp(Dot3(Cross(edge02, faceNormalW), edge01)))

Lv(edge01, edge02, faceNormalW) ==
    VScale(Cross(edge01, faceNormalW), RRcp(Dot3(Cross(edge01, faceNormalW), edge02)))

\* computeBarycentricDifferentials with the two plane equations exchanged.
computeBarycentricDifferentials_swapped(rd, rayDir, edge01, edge02, faceNormalW) ==
    [dBarydx |-> <<Dot3(Lv(edge01, edge02, faceNormalW), rd.dOdx),
                   Dot3(Lu(edge01, edge02, faceNormalW), rd.dOdx)>>,
     dBarydy |-> <<Dot3(Lv(edge01, edge02, faceNormalW), rd.dOdy),
                   Dot3(Lu(edge01, edge02, faceNormalW), rd.dOdy)>>]

computeBarycentricDifferentials(rd, rayDir, edge01, edge02, faceNormalW) ==
    [dBarydx |-> <<Dot3(Lu(edge01, edge02, faceNormalW), rd.dOdx),
                   Dot3(Lv(edge01, edge02, faceNormalW), rd.dOdx)>>,
     dBarydy |-> <<Dot3(Lu(edge01, edge02, faceNormalW), rd.dOdy),
                   Dot3(Lv(edge01, edge02, faceNormalW), rd.dOdy)>>]

interpolateDifferentials(dBarydx, dBarydy, vertexValues) ==
    LET delta1 == VSub(vertexValues[2], vertexValues[1])
        delta2 == VSub(vertexValues[3], vertexValues[1])
    IN  [dx |-> VAdd(VScale(delta1, dBarydx[1]), VScale(delta2, dBarydx[2])),
         dy |-> VAdd(VScale(delta1, dBarydy[1]), VScale(delta2, dBarydy[2]))]

computeNormalDifferentials(rd, nonNormalizedInterpolatedNormalW, dBarydx, dBarydy, normals) ==
    LET n == nonNormalizedInterpolatedNormalW
        NN == Dot3(n, n)
        rcpNN == RDiv(One, RMul(NN, RSqrt(NN)))
        dn == interpolateDifferentials(dBarydx, dBarydy, normals)
    IN  [dNdx |-> VScale(VSub(VScale(dn.dx, NN), VScale(n, Dot3(n, dn.dx))), rcpNN),
         dNdy |-> VScale(VSub(VScale(dn.dy, NN), VScale(n, Dot3(n, dn.dy))), rcpNN)]

computeRayDifferentialRefraction(rd, rayDir, nonNormalizedInterpolatedNormalW, normalizedInterpolatedNormalW, dBarydx, dBarydy, normalsW, eta, refractedDir, NdotD, NdotDprime, mu) ==
    LET dN == computeNormalDifferentials(rd, nonNormalizedInterpolatedNormalW,
                                         dBarydx, dBarydy, normalsW)
        nN == normalizedInterpolatedNormalW
        dDNdx == RAdd(Dot3(rd.dDdx, nN), Dot3(rayDir, dN.dNdx))
        dDNdy == RAdd(Dot3(rd.dDdy, nN), Dot3(rayDir, dN.dNdy))
        f == RMul(eta, RAdd(One, RDiv(RMul(eta, NdotD), NdotDprime)))
        dMudx == RMul(f, dDNdx)
        dMudy == RMul(f, dDNdy)
        dDdx == VSub(VScale(rd.dDdx, eta), VAdd(VScale(dN.dNdx, mu), VScale(nN, dMudx)))
        dDdy == VSub(VScale(rd.dDdy, eta), VAdd(VScale(dN.dNdy, mu), VScale(nN, dMudy)))
    IN  makeRayDiff(rd.dOdx, rd.dOdy, dDdx, dDdy)

\* refractRayDifferential that adds mu * N to eta * rayDir instead of subtracting it.
refractRayDifferential_addNormal(rd, rayDir, nonNormalizedInterpolatedNormalW, normalizedInterpolatedNormalW, dBarydx, dBarydy, normalsW, eta) ==
    LET NdotD == Dot3(normalizedInterpolatedNormalW, rayDir)
        k == RMul(RMul(eta, eta), RSub(One, RMul(NdotD, NdotD)))
        NdotDprime == RSqrt(RSub(One, k))
        mu == RAdd(RMul(eta, NdotD), NdotDprime)
        refractedDir == VAdd(VScale(rayDir, eta), VScale(normalizedInterpolatedNormalW, mu))
    IN  IF RGt(k, One)
        THEN [ret |-> FALSE, rayDiff |-> rd, refractedDir |-> VZero3]
        ELSE [ret |-> TRUE,
              rayDiff |-> computeRayDifferentialRefraction(rd, rayDir,
                              nonNormalizedInterpolatedNormalW,
                              normalizedInterpolatedNormalW, dBarydx, dBarydy, normalsW,
                              eta, refractedDir, NdotD, NdotDprime, mu),
              refractedDir |-> refractedDir]

\* refractRayDifferential that tests k >= 1 instead of k > 1.
refractRayDifferential_rejectCritical(rd, rayDir, nonNormalizedInterpolatedNormalW, normalizedInterpolatedNormalW, dBarydx, dBarydy, normalsW, eta) ==
    LET NdotD == Dot3(normalizedInterpolatedNormalW, rayDir)
        k == RMul(RMul(eta, eta), RSub(One, RMul(NdotD, NdotD)))
        NdotDprime == RSqrt(RSub(One, k))
        mu == RAdd(RMul(eta, NdotD), NdotDprime)
        refractedDir == VSub(VScale(rayDir, eta), VScale(normalizedInterpolatedNormalW, mu))
    IN  IF RGe(k, One)
        THEN [ret |-> FALSE, rayDiff |-> rd, refractedDir |-> VZero3]
        ELSE [ret |-> TRUE,
              rayDiff |-> computeRayDifferentialRefraction(rd, rayDir,
                              nonNormalizedInterpolatedNormalW,
                              normalizedInterpolatedNormalW, dBarydx, dBarydy, normalsW,
                              eta, refractedDir, NdotD, NdotDprime, mu),
              refractedDir |-> refractedDir]

refractRayDifferential(rd, rayDir, nonNormalizedInterpolatedNormalW, normalizedInterpolatedNormalW, dBarydx, dBarydy, normalsW, eta) ==
    LET NdotD == Dot3(normalizedInterpolatedNormalW, rayDir)
        k == RMul(RMul(eta, eta), RSub(One, RMul(NdotD, NdotD)))
        NdotDprime == RSqrt(RSub(One, k))
        mu == RAdd(RMul(eta, NdotD), NdotDprime)
        refractedDir == VSub(VScale(rayDir, eta), VScale(normalizedInterpolatedNormalW, mu))
    IN  IF RGt(k, One)
        THEN [ret |-> FALSE, rayDiff |-> rd, refractedDir |-> VZero3]
        ELSE [ret |-> TRUE,
              rayDiff |-> computeRayDifferentialRefraction(rd, rayDir,
                              nonNormalizedInterpolatedNormalW,
                              normalizedInterpolatedNormalW, dBarydx, dBarydy, normalsW,
                              eta, refractedDir, NdotD, NdotDprime, mu),
              refractedDir |-> refractedDir]

(***************************************************************************)
(* Reflection of a ray differential, and the vertex data prepared for it.  *)
(***************************************************************************)
\* reflectRayDifferential that subtracts the normal part once instead of twice.
reflectRayDifferential_project(rd, rayDir, nonNormalizedInterpolatedNormalW, normalizedInterpolatedNormalW, dBarydx, dBarydy, normalsW) ==
    LET dN == computeNormalDifferentials(rd, nonNormalizedInterpolatedNormalW,
                                         dBarydx, dBarydy, normalsW)
        nN == normalizedInterpolatedNormalW
        dDNdx == RAdd(Dot3(rd.dDdx, nN), Dot3(rayDir, dN.dNdx))
        dDNdy == RAdd(Dot3(rd.dDdy, nN), Dot3(rayDir, dN.dNdy))
        DN == Dot3(rayDir, nN)
    IN  makeRayDiff(rd.dOdx, rd.dOdy,
            VSub(rd.dDdx, VAdd(VScale(dN.dNdx, DN), VScale(nN, dDNdx))),
            VSub(rd.dDdy, VAdd(VScale(dN.dNdy, DN), VScale(nN, dDNdy))))

reflectRayDifferential(rd, rayDir, nonNormalizedInterpolatedNormalW, normalizedInterpolatedNormalW, dBarydx, dBarydy, normalsW) ==
    LET dN == computeNormalDifferentials(rd, nonNormalizedInterpolatedNormalW,
                                         dBarydx, dBarydy, normalsW)
        nN == normalizedInterpolatedNormalW
        dDNdx == RAdd(Dot3(rd.dDdx, nN), Dot3(rayDir, dN.dNdx))
        dDNdy == RAdd(Dot3(rd.dDdy, nN), Dot3(rayDir, dN.dNdy))
        DN == Dot3(rayDir, nN)
    IN  makeRayDiff(rd.dOdx, rd.dOdy,
            VSub(rd.dDdx, VScale(VAdd(VScale(dN.dNdx, DN), VScale(nN, dDNdx)), Two)),
            VSub(rd.dDdy, VScale(VAdd(VScale(dN.dNdy, DN), VScale(nN, dDNdy)), Two)))

\* mul(v, M) for a row vector v and a 3x3 matrix M given by its rows.
MulRow3(v, M) ==
    VAdd(VAdd(VScale(M[1], v[1]), VScale(M[2], v[2])), VScale(M[3], v[3]))

\* The interpolated normal and the three normals, negated together when the
\* interpolated normal faces along the ray.
flipNormals(rayDir, unnormalizedN, normals) ==
    IF RGt(Dot3(unnormalizedN, rayDir), Zero)
    THEN [unnormalizedN |-> VNeg(unnormalizedN),
          normals |-> <<VNeg(normals[1]), VNeg(normals[2]), VNeg(normals[3])>>]
    ELSE [unnormalizedN |-> unnormalizedN, normals |-> normals]

\* The world-space normals blended with the barycentrics.
blendNormals(normals, barycentrics) ==
    VAdd(VAdd(VScale(normals[1], barycentrics[1]), VScale(normals[2], barycentrics[2])),
         VScale(normals[3], barycentrics[3]))

\* prepareVerticesForRayDiffs that negates the interpolated normal only.
prepareVerticesForRayDiffs_flipBlendOnly(rayDir, vertices, worldMat, worldInvTransposeMat, barycentrics) ==
    LET normals == << MulRow3(vertices[1].normal, worldInvTransposeMat),
                      MulRow3(vertices[2].normal, worldInvTransposeMat),
                      MulRow3(vertices[3].normal, worldInvTransposeMat) >>
        blend == blendNormals(normals, barycentrics)
    IN  [edge01 |-> MulRow3(VSub(vertices[2].position, vertices[1].position), worldMat),
         edge02 |-> MulRow3(VSub(vertices[3].position, vertices[1].position), worldMat),
         normals |-> normals,
         unnormalizedN |-> flipNormals(rayDir, blend, normals).unnormalizedN,
         txcoords |-> <<vertices[1].texCrd, vertices[2].texCrd, vertices[3].texCrd>>]

prepareVerticesForRayDiffs(rayDir, vertices, worldMat, worldInvTransposeMat, barycentrics) ==
    LET normals == << MulRow3(vertices[1].normal, worldInvTransposeMat),
                      MulRow3(vertices[2].normal, worldInvTransposeMat),
                      MulRow3(vertices[3].normal, worldInvTransposeMat) >>
        blend == blendNormals(normals, barycentrics)
    IN  [edge01 |-> MulRow3(VSub(vertices[2].position, vertices[1].position), worldMat),
         edge02 |-> MulRow3(VSub(vertices[3].position, vertices[1].position), worldMat),
         normals |-> flipNormals(rayDir, blend, normals).normals,
         unnormalizedN |-> flipNormals(rayDir, blend, normals).unnormalizedN,
         txcoords |-> <<vertices[1].texCrd, vertices[2].texCrd, vertices[3].texCrd>>]

(***************************************************************************)
(* ColorUtils.h: colorTemperatureToXYZ.  A polynomial is kept as the tuple *)
(* of its decimal coefficients <<mantissa, power of ten>>, highest degree  *)
(* first, as written in the source; the chromaticities are not evaluated.  *)
(***************************************************************************)
\* xc for T < 4000, in powers of 1/t: 1/t^3, 1/t^2, 1/t, 1.
XcBelow4000 ==
    << <<-2661239, 2>>, <<-2343580, -1>>, <<8776956, -4>>, <<179910, -6>> >>

XcFrom4000 ==
    << <<-30258469, 2>>, <<21070379, -1>>, <<2226347, -4>>, <<240390, -6>> >>

\* yc in powers of x: x^3, x^2, x, 1.
YcBelow2222 ==
    << <<-11063814, -7>>, <<-134811020, -8>>, <<218555832, -8>>, <<-20219683, -8>> >>

YcBelow4000 ==
    << <<-9549476, -7>>, <<-137418593, -8>>, <<209137015, -8>>, <<-16748867, -8>> >>

YcFrom4000 ==
    << <<30817580, -7>>, <<-587338670, -8>>, <<375112997, -8>>, <<-37001483, -8>> >>

TMin ==
    <<1667, 1>>

TMax ==
    <<25000, 1>>

\* colorTemperatureToXYZ that rejects the two ends of the supported range.
colorTemperatureToXYZ_openRange(T, Y) ==
    IF RLe(T, TMin) \/ RGe(T, TMax)
    THEN [outOfRange |-> TRUE, XYZ |-> VZero3]
    ELSE [outOfRange |-> FALSE,
          xc |-> IF RLt(T, <<4000, 1>>) THEN XcBelow4000 ELSE XcFrom4000,
          yc |-> IF RLt(T, <<2222, 1>>) THEN YcBelow2222
                 ELSE IF RLt(T, <<4000, 1>>) THEN YcBelow4000 ELSE YcFrom4000,
          Y |-> Y]

\* The value returned: float3(0, 0, 0) on the out-of-range path, and otherwise
\* xyYtoXYZ of the two polynomials that were selected and Y.
colorTemperatureToXYZ(T, Y) ==
    IF RLt(T, TMin) \/ RGt(T, TMax)
    THEN [outOfRange |-> TRUE, XYZ |-> VZero3]
    ELSE [outOfRange |-> FALSE,
          xc |-> IF RLt(T, <<4000, 1>>) THEN XcBelow4000 ELSE XcFrom4000,
          yc |-> IF RLt(T, <<2222, 1>>) THEN YcBelow2222
                 ELSE IF RLt(T, <<4000, 1>>) THEN YcBelow4000 ELSE YcFrom4000,
          Y |-> Y]

(***************************************************************************)
(* ColorUtils.h: calculateWhiteBalanceTransformRGB_Rec709.  float3x3 is    *)
(* initialised row by row and a matrix times a vector is the vector of the *)
(* dot products of the rows with it.                                       *)
(***************************************************************************)
kColorTransform_XYZtoLMS_CAT02 ==
    << <<R(7328, 10000), R(-7036, 10000), R(30, 10000)>>,
       <<R(4296, 10000), R(16975, 10000), R(136, 10000)>>,
       <<R(-1624, 10000), R(61, 10000), R(9834, 10000)>> >>

\* kColorTransform_XYZtoLMS_CAT02 * c: evaluated for the colour of the out-of-range
\* path, kept as the unevaluated product for a colour of the polynomial path.
XYZtoLMS_CAT02(c) ==
    IF c.outOfRange
    THEN [outOfRange |-> TRUE,
          LMS |-> [i \in 1..3 |-> Dot3(kColorTransform_XYZtoLMS_CAT02[i], c.XYZ)]]
    ELSE [outOfRange |-> FALSE, XYZ |-> c]

\* The two whites of scale = wd / ws, the quotient whose components are the
\* diagonal of D in the returned invMA * D * MA.
calculateWhiteBalanceTransformRGB_Rec709(T) ==
    [wd |-> XYZtoLMS_CAT02(colorTemperatureToXYZ(<<6500, 1>>, One)),
     ws |-> XYZtoLMS_CAT02(colorTemperatureToXYZ(T, One))]

(***************************************************************************)
(* Surface spread angle from curvature, and the anisotropic ellipse axes.  *)
(***************************************************************************)
\* 1.0e-5
Epsilon ==
    <<1, 100000>>

\* 0.0001f
AxisFloor ==
    <<1, 10000>>

\* dn = abs(dn) < 1.0e-5 ? sign(dn) * 1.0e-5 : dn
clampDn(dn) ==
    IF RLt(RAbs(dn), Epsilon) THEN RMul(RSign(dn), Epsilon) ELSE dn

\* TEXLOD_SPREADANGLE_FROM_CURVATURE_MODE is TEXLOD_SPREADANGLE_ARC_LENGTH_OPTIMIZED.
computeSpreadAngleFromCurvatureIso(curvature, rayConeWidth, rayDir, normal) ==
    RDiv(RMul(curvature, rayConeWidth), clampDn(RNeg(Dot3(rayDir, normal))))

\* The other two formulations behind TEXLOD_SPREADANGLE_FROM_CURVATURE_MODE.
\* sqrt(2.0), to five significant digits.
Sqrt2 ==
    <<7071, 5000>>

\* The arguments at which atan and asin are evaluated: |x| <= 1/64, where both are
\* x to within one part in 10^4.
SmallAngle(x) ==
    IsFinite(x) /\ RLe(RAbs(x), <<1, 64>>)

RAtan(x) ==
    IF IsNaN(x) THEN NaN
    ELSE IF SmallAngle(x) THEN x
    ELSE CHOOSE r \in {} : TRUE

RAsin(x) ==
    IF IsNaN(x) THEN NaN
    ELSE IF SmallAngle(x) THEN x
    ELSE CHOOSE r \in {} : TRUE

\* TEXLOD_SPREADANGLE_RTG1
computeSpreadAngleFromCurvatureIso_RTG1(curvature, rayConeWidth, rayDir, normal) ==
    LET dn == clampDn(RNeg(Dot3(rayDir, normal)))
        s == RSign(curvature)
        curvatureScaled == RDiv(RMul(RMul(curvature, rayConeWidth), Half), dn)
    IN  RMul(RMul(Two, RAtan(RDiv(RAbs(curvatureScaled), Sqrt2))), s)

\* TEXLOD_SPREADANGLE_ARC_LENGTH_UNOPTIMIZED
computeSpreadAngleFromCurvatureIso_ArcLength(curvature, rayConeWidth, rayDir, normal) ==
    LET dn == clampDn(RNeg(Dot3(rayDir, normal)))
        r == RDiv(One, curvature)
        chord == RDiv(rayConeWidth, dn)
        arcLength == RMul(RAsin(RDiv(chord, RMul(Two, r))), RMul(Two, r))
    IN  RMul(curvature, arcLength)

\* ellipseAxis *= radius / max(0.0001f, length(rayDirPlaneProjection))
scaleEllipseAxis(ellipseAxis, rayConeDir, rayConeRadiusAtIntersection) ==
    VScale(ellipseAxis,
           RDiv(rayConeRadiusAtIntersection,
                RMax(AxisFloor,
                     Length3(VSub(ellipseAxis,
                                  VScale(rayConeDir, Dot3(rayConeDir, ellipseAxis)))))))

ellipseAxis0(faceNormal, rayConeDir, rayConeRadiusAtIntersection) ==
    scaleEllipseAxis(VSub(rayConeDir, VScale(faceNormal, Dot3(faceNormal, rayConeDir))),
                     rayConeDir, rayConeRadiusAtIntersection)

ellipseAxis1(faceNormal, rayConeDir, rayConeRadiusAtIntersection) ==
    scaleEllipseAxis(Cross(faceNormal,
                           ellipseAxis0(faceNormal, rayConeDir, rayConeRadiusAtIntersection)),
                     rayConeDir, rayConeRadiusAtIntersection)

\* oneOverAreaTriangle with the area floored like the ellipse axes are.
oneOverAreaTriangle_floored(faceNormal, edge01, edge02) ==
    RDiv(One, RMax(AxisFloor, Dot3(faceNormal, Cross(edge01, edge02))))

oneOverAreaTriangle(faceNormal, edge01, edge02) ==
    RDiv(One, Dot3(faceNormal, Cross(edge01, edge02)))

\* The texture gradient along one ellipse axis, from the barycentrics of d + axis.
texGradient(faceNormal, edgeP, edge01, edge02, oneOverArea, txcoords, interpolatedTexCoordsAtIntersection) ==
    LET u == RMul(Dot3(faceNormal, Cross(edgeP, edge02)), oneOverArea)
        v == RMul(Dot3(faceNormal, Cross(edge01, edgeP)), oneOverArea)
    IN  VSub(VAdd(VAdd(VScale(txcoords[1], RSub(RSub(One, u), v)),
                       VScale(txcoords[2], u)),
                  VScale(txcoords[3], v)),
             interpolatedTexCoordsAtIntersection)

computeAnisotropicEllipseAxes(intersectionPoint, faceNormal, rayConeDir, rayConeRadiusAtIntersection, positions, txcoords, interpolatedTexCoordsAtIntersection) ==
    LET d == VSub(intersectionPoint, positions[1])
        edge01 == VSub(positions[2], positions[1])
        edge02 == VSub(positions[3], positions[1])
    IN  [texGradientX |->
             texGradient(faceNormal,
                 VAdd(d, ellipseAxis0(faceNormal, rayConeDir, rayConeRadiusAtIntersection)),
                 edge01, edge02, oneOverAreaTriangle(faceNormal, edge01, edge02),
                 txcoords, interpolatedTexCoordsAtIntersection),
         texGradientY |->
             texGradient(faceNormal,
                 VAdd(d, ellipseAxis1(faceNormal, rayConeDir, rayConeRadiusAtIntersection)),
                 edge01, edge02, oneOverAreaTriangle(faceNormal, edge01, edge02),
                 txcoords, interpolatedTexCoordsAtIntersection)]

(***************************************************************************)
(* Triangle curvature estimators (ITriangleCurvatureEstimator.eval).       *)
(***************************************************************************)
TriangleCurvature_Average(edge01, edge02, edge12, curvature01, curvature02, curvature12) ==
    RDiv(RAdd(RAdd(curvature01, curvature02), curvature12), Three)

\* Max that returns the largest curvature whatever the magnitude of the smallest.
TriangleCurvature_Max_largest(edge01, edge02, edge12, curvature01, curvature02, curvature12) ==
    RMax(curvature01, RMax(curvature02, curvature12))

TriangleCurvature_Max(edge01, edge02, edge12, curvature01, curvature02, curvature12) ==
    LET minCurvature == RMin(curvature01, RMin(curvature02, curvature12))
        maxCurvature == RMax(curvature01, RMax(curvature02, curvature12))
    IN  IF RGt(maxCurvature, RAbs(minCurvature)) THEN maxCurvature ELSE minCurvature

\* (ka * wa + kb * wb) / (wa + wb)
weightedPair(ka, wa, kb, wb) ==
    RDiv(RAdd(RMul(ka, wa), RMul(kb, wb)), RAdd(wa, wb))

closestDP(d01, d02, d12, curvature01, curvature02, curvature12) ==
    IF RLt(d01, d02)
    THEN (IF RLt(d01, d12)
          THEN weightedPair(curvature02, d02, curvature12, d12)
          ELSE weightedPair(curvature01, d01, curvature02, d02))
    ELSE (IF RLt(d02, d12)
          THEN weightedPair(curvature01, d01, curvature12, d12)
          ELSE weightedPair(curvature01, d01, curvature02, d02))

TriangleCurvature_DirClosestDP(rayDir, edge01, edge02, edge12, curvature01, curvature02, curvature12) ==
    closestDP(RAbs(Dot3(rayDir, Normalize3(edge01))),
              RAbs(Dot3(rayDir, Normalize3(edge02))),
              RAbs(Dot3(rayDir, Normalize3(edge12))),
              curvature01, curvature02, curvature12)

\* closestAngles that weights each curvature with the angle of its own edge.
closestAngles_ownAngle(a01, a02, a12, curvature01, curvature02, curvature12) ==
    IF RGt(a01, a02)
    THEN (IF RGt(a01, a12)
          THEN weightedPair(curvature02, a02, curvature12, a12)
          ELSE weightedPair(curvature01, a01, curvature02, a02))
    ELSE (IF RGt(a02, a12)
          THEN weightedPair(curvature01, a01, curvature12, a12)
          ELSE weightedPair(curvature01, a01, curvature02, a02))

closestAngles(a01, a02, a12, curvature01, curvature02, curvature12) ==
    IF RGt(a01, a02)
    THEN (IF RGt(a01, a12)
          THEN weightedPair(curvature02, a12, curvature12, a02)
          ELSE weightedPair(curvature01, a02, curvature02, a01))
    ELSE (IF RGt(a02, a12)
          THEN weightedPair(curvature01, a12, curvature12, a01)
          ELSE weightedPair(curvature01, a02, curvature02, a01))

TriangleCurvature_Directional(rayDir, edge01, edge02, edge12, curvature01, curvature02, curvature12) ==
    closestAngles(RAcos(RAbs(Dot3(rayDir, Normalize3(edge01)))),
                  RAcos(RAbs(Dot3(rayDir, Normalize3(edge02)))),
                  RAcos(RAbs(Dot3(rayDir, Normalize3(edge12)))),
                  curvature01, curvature02, curvature12)

\* EllipseVis, in the order of its statements.
\* The curvature that generates the largest spread.
largestSpread(rayDir, rayConeWidth, rayConeAngle, geoNormal, k0, k1) ==
    LET dn == clampDn(RNeg(Dot3(rayDir, geoNormal)))
        surfaceSpreadAngle0 == RMul(RDiv(RMul(k0, rayConeWidth), dn), Two)
        surfaceSpreadAngle1 == RMul(RDiv(RMul(k1, rayConeWidth), dn), Two)
    IN  IF RGt(RAbs(RAdd(rayConeAngle, surfaceSpreadAngle0)),
               RAbs(RAdd(rayConeAngle, surfaceSpreadAngle1)))
        THEN k0 ELSE k1

scaleByClippedLength(rayDir, rayConeWidth, rayConeAngle, geoNormal, minCurvature, maxCurvature, aaE0, aaE1) ==
    largestSpread(rayDir, rayConeWidth, rayConeAngle, geoNormal,
                  RDiv(RMul(minCurvature, aaE0), RMax(aaE0, aaE1)),
                  RDiv(RMul(maxCurvature, aaE1), RMax(aaE0, aaE1)))

\* Distance from the centre to the ellipse (l1, l2) along a unit tangent-space edge.
ellipseDistance(l1, l2, edgeTS) ==
    RDiv(RMul(l1, l2),
         RSqrt(RAdd(RMul(RMul(l1, l1), RMul(edgeTS[2], edgeTS[2])),
                    RMul(RMul(l2, l2), RMul(edgeTS[1], edgeTS[1])))))

\* mul(worldToTangent, edge).xy with rows a1 / l1 and a2 / l2, normalized.
edgeToTangentSpace(a1, a2, l1, l2, edge) ==
    Normalize2(<<Dot3(VScale(a1, RRcp(l1)), edge), Dot3(VScale(a2, RRcp(l2)), edge)>>)

intersectEdgesWithEllipse(rayDir, rayConeWidth, rayConeAngle, geoNormal, minCurvature, maxCurvature, minEdge, maxEdge, a1, a2, l1, l2) ==
    scaleByClippedLength(rayDir, rayConeWidth, rayConeAngle, geoNormal, minCurvature,
        maxCurvature,
        ellipseDistance(l1, l2, edgeToTangentSpace(a1, a2, l1, l2, minEdge)),
        ellipseDistance(l1, l2, edgeToTangentSpace(a1, a2, l1, l2, maxEdge)))

measureAxes(rayDir, rayConeWidth, rayConeAngle, geoNormal, minCurvature, maxCurvature, minEdge, maxEdge, a1, a2) ==
    intersectEdgesWithEllipse(rayDir, rayConeWidth, rayConeAngle, geoNormal, minCurvature,
        maxCurvature, minEdge, maxEdge, a1, a2, Length3(a1), Length3(a2))

\* a *= r / length(a - dot(rayDir, a) * rayDir)
correctAxisLength(a, rayDir, r) ==
    VScale(a, RDiv(r, Length3(VSub(a, VScale(rayDir, Dot3(rayDir, a))))))

ellipseFromRayDir(rayDir, rayConeWidth, rayConeAngle, geoNormal, minCurvature, maxCurvature, minEdge, maxEdge, a1) ==
    measureAxes(rayDir, rayConeWidth, rayConeAngle, geoNormal, minCurvature, maxCurvature,
        minEdge, maxEdge,
        correctAxisLength(a1, rayDir, RMul(rayConeWidth, Half)),
        correctAxisLength(Cross(geoNormal, a1), rayDir, RMul(rayConeWidth, Half)))

projectRayDir(rayDir, rayConeWidth, rayConeAngle, geoNormal, minCurvature, maxCurvature, minEdge, maxEdge) ==
    ellipseFromRayDir(rayDir, rayConeWidth, rayConeAngle, geoNormal, minCurvature,
        maxCurvature, minEdge, maxEdge,
        VSub(rayDir, VScale(geoNormal, Dot3(geoNormal, rayDir))))

TriangleCurvature_EllipseVis(rayDir, rayConeWidth, rayConeAngle, edge01, edge02, edge12, curvature01, curvature02, curvature12) ==
    LET minCurvature == RMin(curvature01, RMin(curvature02, curvature12))
        maxCurvature == RMax(curvature01, RMax(curvature02, curvature12))
        minEdge == IF curvature01 = minCurvature THEN edge01
                   ELSE IF curvature02 = minCurvature THEN edge02 ELSE edge12
        maxEdge == IF curvature01 = maxCurvature THEN edge01
                   ELSE IF curvature02 = maxCurvature THEN edge02 ELSE edge12
    IN  projectRayDir(rayDir, rayConeWidth, rayConeAngle,
                      Normalize3(Cross(edge01, edge02)),
                      minCurvature, maxCurvature, minEdge, maxEdge)

TriangleCurvature_Zero(edge01, edge02, edge12, curvature01, curvature02, curvature12) ==
    Zero

(***************************************************************************)
(* Inputs of the model.                                                    *)
(***************************************************************************)
MaxSteps == 2

\* Cones at the camera or synthesized at a hit (width, spread angle).
InitWidths ==
    {Zero, One, <<3, 1>>}

InitAngles ==
    {Zero, <<1, 1024>>, <<-1, 512>>, <<1, 4>>}

HitTs ==
    {Zero, One, <<10, 1>>, <<1, 3>>, <<70000, 1>>}

\* The hit distances of the n-th segment of a path: the long segment is the first one.
HitTsOfSegment(n) ==
    IF n = 0 THEN HitTs ELSE HitTs \ {<<70000, 1>>}

SurfaceSpreadAngles ==
    {Zero, <<1, 2048>>, <<-1, 1024>>, <<1, 3>>}

NoRayDiff ==
    makeRayDiff(VZero3, VZero3, VZero3, VZero3)

\* Unit ray directions and unit normals with rational components.
Q(n, d) ==
    R(n, d)

RayDirs ==
    { <<Zero, Zero, Q(-1, 1)>>, <<Q(3, 5), Zero, Q(-4, 5)>>, <<Q(4, 5), Zero, Q(-3, 5)>>,
      <<One, Zero, Zero>>, <<Q(3, 5), Zero, Q(4, 5)>> }

Normals ==
    { <<Zero, Zero, One>>, <<One, Zero, Zero>>, <<Zero, Q(3, 5), Q(4, 5)>> }

\* Ray differentials at the camera and after a bounce.
InitRayDiffs ==
    { makeRayDiff(VZero3, VZero3, <<Q(1, 8), Zero, Zero>>, <<Zero, Q(1, 8), Zero>>),
      makeRayDiff(<<One, Zero, Zero>>, <<Zero, One, One>>,
                  <<Zero, Zero, Half>>, <<Q(1, 4), Zero, Q(-1, 4)>>) }

PropagateTs ==
    {Zero, One, Q(5, 2)}

NoCone ==
    [widthSpreadAngleFP16 |-> <<0, 0>>]

NoHit ==
    [rayDir |-> VZero3]

\* The calls made on the ray cone of a path so far, oldest first.
NoPath ==
    [path |-> <<>>]

\* Relative indices of refraction n1 / n2.
Etas ==
    {One, Q(4, 3), Q(5, 3), Two, Q(3, 4), Q(5, 4), Q(3, 5), Q(4, 5)}

\* Vertex normals of the hit triangle: flat, or bent away from the normal at the hit.
NormalsW(N) ==
    { <<N, N, N>>, <<N, <<Q(3, 5), Zero, Q(4, 5)>>, <<Zero, Q(3, 5), Q(4, 5)>>>> }

\* The hits whose refraction has rational square roots.
ExactHit(D, N, eta) ==
    LET NdotD == Dot3(N, D)
        sin2 == RSub(One, RMul(NdotD, NdotD))
    IN  /\ SqrtExact(sin2)
        /\ SqrtExact(RSub(One, RMul(RMul(eta, eta), sin2)))

NotDone ==
    [done |-> FALSE]

Hit(D, N, eta, nW) ==
    [rayDir |-> D, normal |-> N, eta |-> eta, normalsW |-> nW,
     dBarydx |-> <<Half, Zero>>, dBarydy |-> <<Zero, Q(1, 4)>>,
     coneRes |-> NotDone, diffRes |-> NotDone]

InitCone ==
    /\ f16round \in RoundingModes
    /\ \E w \in InitWidths, a \in InitAngles : cone = make(w, a)
    /\ rayDiff = NoRayDiff
    /\ hit = NoPath
    /\ call = [op |-> "none"]
    /\ steps = 0

InitDiff ==
    /\ f16round = "rne"
    /\ cone = NoCone
    /\ rayDiff \in InitRayDiffs
    /\ hit = NoHit
    /\ call = [op |-> "none"]
    /\ steps = 0

(***************************************************************************)
(* Ray cone operations.                                                    *)
(***************************************************************************)
PropagateDistance ==
    /\ steps < MaxSteps
    /\ \E hitT \in HitTsOfSegment(steps) :
        /\ cone' = propagateDistance(cone, hitT)
        /\ call' = [op |-> "propagateDistance", rayCone |-> cone, hitT |-> hitT,
                    ret |-> propagateDistance(cone, hitT)]
        /\ hit' = [path |-> Append(hit.path,
                                    [op |-> "propagateDistance", arg |-> hitT,
                                     rayCone |-> cone,
                                     ret |-> propagateDistance(cone, hitT)])]
    /\ steps' = steps + 1
    /\ UNCHANGED <<f16round, rayDiff>>

AddToSpreadAngle ==
    /\ steps < MaxSteps
    /\ \E s \in SurfaceSpreadAngles :
        /\ cone' = addToSpreadAngle(cone, s)
        /\ call' = [op |-> "addToSpreadAngle", rayCone |-> cone, surfaceSpreadAngle |-> s,
                    ret |-> addToSpreadAngle(cone, s)]
        /\ hit' = [path |-> Append(hit.path,
                                    [op |-> "addToSpreadAngle", arg |-> s,
                                     rayCone |-> cone,
                                     ret |-> addToSpreadAngle(cone, s)])]
    /\ steps' = steps + 1
    /\ UNCHANGED <<f16round, rayDiff>>

NextCone ==
    \/ PropagateDistance
    \/ AddToSpreadAngle

SpecCone ==
    InitCone /\ [][NextCone]_vars

(***************************************************************************)
(* Ray differential operations.                                            *)
(***************************************************************************)
Propagate ==
    /\ steps < MaxSteps
    /\ \E D \in RayDirs, N \in Normals, t \in PropagateTs :
        /\ rayDiff' = propagate(rayDiff, VZero3, D, t, N)
        /\ call' = [op |-> "propagate", rayDiff |-> rayDiff, O |-> VZero3, D |-> D,
                    t |-> t, N |-> N, ret |-> propagate(rayDiff, VZero3, D, t, N)]
    /\ steps' = steps + 1
    /\ UNCHANGED <<f16round, cone, hit>>

NextDiff ==
    Propagate

SpecDiff ==
    InitDiff /\ [][NextDiff]_vars

(***************************************************************************)
(* Refraction of both footprints at one hit.                               *)
(***************************************************************************)
InitRefract ==
    /\ f16round = "rne"
    /\ \E w \in InitWidths \cup {Q(-1, 1)} : cone = make(w, Zero)
    /\ rayDiff \in InitRayDiffs
    /\ \E D \in RayDirs, N \in Normals, eta \in Etas :
        /\ ExactHit(D, N, eta)
        /\ \E nW \in NormalsW(N) : hit = Hit(D, N, eta, nW)
    /\ call = [op |-> "none"]
    /\ steps = 0

RefractRayCone ==
    /\ ~hit.coneRes.done
    /\ \E r \in {refractRayCone(cone, VZero3, hit.rayDir, VZero3, hit.normal, Zero,
                                hit.eta)} :
           /\ cone' = r.rayCone
           /\ hit' = [hit EXCEPT !.coneRes =
                         [done |-> TRUE, ret |-> r.ret, before |-> cone,
                          after |-> r.rayCone, refractedRayDir |-> r.refractedRayDir]]
           /\ call' = [op |-> "refractRayCone", rayDir |-> hit.rayDir,
                       normal |-> hit.normal, eta |-> hit.eta, ret |-> r.ret]
    /\ UNCHANGED <<f16round, rayDiff, steps>>

RefractRayDifferential ==
    /\ ~hit.diffRes.done
    /\ \E r \in {refractRayDifferential(rayDiff, hit.rayDir, hit.normal, hit.normal,
                                        hit.dBarydx, hit.dBarydy, hit.normalsW, hit.eta)} :
           /\ rayDiff' = r.rayDiff
           /\ hit' = [hit EXCEPT !.diffRes =
                         [done |-> TRUE, ret |-> r.ret, before |-> rayDiff,
                          after |-> r.rayDiff, refractedDir |-> r.refractedDir]]
           /\ call' = [op |-> "refractRayDifferential", rayDir |-> hit.rayDir,
                       normal |-> hit.normal, eta |-> hit.eta, ret |-> r.ret]
    /\ UNCHANGED <<f16round, cone, steps>>

NextRefract ==
    \/ RefractRayCone
    \/ RefractRayDifferential

SpecRefract ==
    InitRefract /\ [][NextRefract]_vars

(***************************************************************************)
(* Shading a hit with ray cones: the curvature estimate of the triangle,   *)
(* the spread angle it adds, and the anisotropic footprint.                *)
(***************************************************************************)
\* Cones that reach the hit (width, spread angle).
SurfaceCones ==
    { make(Zero, Zero), make(One, Zero), make(Three, Q(1, 1024)), make(Half, Q(1, 1024)),
      make(One, Q(3, 16)) }

\* The unit directions and one that grazes the z = 0 plane within 1.0e-5.
SurfaceRayDirs ==
    RayDirs \cup { <<One, Zero, Q(-1, 200000)>> }

\* Triangles in the z = 0 plane with edge01 along x or of zero length: two proper
\* ones, a small one (twice the area is 7.5e-5), one with edge01 and edge02
\* parallel, one with a zero-length edge01.
AxisTriangles ==
    { <<VZero3, <<Three, Zero, Zero>>, <<Zero, Q(4, 1), Zero>>>>,
      <<VZero3, <<Q(4, 1), Zero, Zero>>, <<Zero, Three, Zero>>>>,
      <<VZero3, <<Q(3, 400), Zero, Zero>>, <<Zero, Q(4, 400), Zero>>>>,
      <<VZero3, <<One, Zero, Zero>>, <<Two, Zero, Zero>>>>,
      <<VZero3, VZero3, <<Zero, Q(4, 1), Zero>>>> }

\* The 3-4-5 triangle with each edge in turn across the x axis, and an isosceles
\* triangle whose edge01 and edge12 make the same angle with the x axis.
TrianglePositions ==
    AxisTriangles \cup
    { <<VZero3, <<Zero, Q(4, 1), Zero>>, <<Three, Zero, Zero>>>>,
      <<VZero3, <<Three, Zero, Zero>>, <<Three, Q(4, 1), Zero>>>>,
      <<VZero3, <<Three, Q(4, 1), Zero>>, <<Three, Zero, Zero>>>>,
      <<VZero3, <<Three, Q(4, 1), Zero>>, <<Q(6, 1), Zero, Zero>>>> }

FaceNormal ==
    <<Zero, Zero, One>>

TriangleTxcoords ==
    << <<Zero, Zero>>, <<One, Zero>>, <<Zero, One>> >>

\* Barycentrics (of vertices 1 and 2) of the hit point: vertex 0 and an inner point.
HitBarycentrics ==
    { <<Zero, Zero>>, <<Q(1, 4), Half>> }

\* Cone radii at the hit: the width of the cone, and 5.0e-5.
ConeRadii(rc) ==
    { getWidth(rc), Q(1, 20000) }

\* The attribute a (positions or texture coordinates) interpolated at barycentrics b.
interpolateAtHit(a, b) ==
    VAdd(VAdd(VScale(a[1], RSub(RSub(One, b[1]), b[2])), VScale(a[2], b[1])),
         VScale(a[3], b[2]))

\* curvature01, curvature02, curvature12
EllipseCurvatures ==
    { <<Zero, Zero, Zero>>, <<Half, Half, Half>>, <<Q(-1, 1), Two, Zero>>,
      <<Two, Q(-1, 1), One>>, <<Q(-1, 1), One, Zero>> }

EdgeCurvatures ==
    EllipseCurvatures \cup { <<Q(-1, 1), Q(-2, 1), Q(-1, 2)>>, <<Q(-2, 1), Two, One>> }

\* The hit being shaded: ray direction, triangle, and the curvatures of its edges.
SurfaceHit(rayDir, positions, k) ==
    [rayDir |-> rayDir, positions |-> positions,
     edge01 |-> VSub(positions[2], positions[1]),
     edge02 |-> VSub(positions[3], positions[1]),
     edge12 |-> VSub(positions[3], positions[2]),
     curvature01 |-> k[1], curvature02 |-> k[2], curvature12 |-> k[3]]

InitSurface ==
    /\ f16round = "rne"
    /\ cone \in SurfaceCones
    /\ rayDiff = NoRayDiff
    /\ \E rayDir \in SurfaceRayDirs, positions \in TrianglePositions, k \in EdgeCurvatures :
        hit = SurfaceHit(rayDir, positions, k)
    /\ call = [op |-> "none"]
    /\ steps = 0

ComputeSpreadAngleFromCurvatureIso ==
    /\ call.op = "none"
    /\ call' = [op |-> "computeSpreadAngleFromCurvatureIso",
                curvature |-> hit.curvature02, rayConeWidth |-> getWidth(cone),
                rayDir |-> hit.rayDir, normal |-> FaceNormal,
                ret |-> computeSpreadAngleFromCurvatureIso(hit.curvature02,
                            getWidth(cone), hit.rayDir, FaceNormal)]
    /\ UNCHANGED <<f16round, cone, rayDiff, hit, steps>>

\* The footprint is computed for the unit directions, whose axes are rational.
ComputeAnisotropicEllipseAxes ==
    /\ call.op = "none"
    /\ hit.rayDir \in RayDirs
    /\ \E b \in HitBarycentrics, r \in ConeRadii(cone) :
        \E p \in {interpolateAtHit(hit.positions, b)},
           t \in {interpolateAtHit(TriangleTxcoords, b)} :
            call' = [op |-> "computeAnisotropicEllipseAxes", intersectionPoint |-> p,
                     faceNormal |-> FaceNormal, rayConeDir |-> hit.rayDir,
                     rayConeRadiusAtIntersection |-> r,
                     positions |-> hit.positions, txcoords |-> TriangleTxcoords,
                     interpolatedTexCoordsAtIntersection |-> t,
                     ret |-> computeAnisotropicEllipseAxes(p, FaceNormal, hit.rayDir,
                                 r, hit.positions, TriangleTxcoords, t)]
    /\ UNCHANGED <<f16round, cone, rayDiff, hit, steps>>

\* The record of one eval call of a curvature estimator on the hit.
EvalCall(estimator, ret) ==
    [op |-> "eval", estimator |-> estimator, rayDir |-> hit.rayDir,
     edge01 |-> hit.edge01, edge02 |-> hit.edge02, edge12 |-> hit.edge12,
     curvature01 |-> hit.curvature01, curvature02 |-> hit.curvature02,
     curvature12 |-> hit.curvature12, ret |-> ret]

EvalAverage ==
    /\ call.op = "none"
    /\ call' = EvalCall("Average",
                   TriangleCurvature_Average(hit.edge01, hit.edge02, hit.edge12,
                       hit.curvature01, hit.curvature02, hit.curvature12))
    /\ UNCHANGED <<f16round, cone, rayDiff, hit, steps>>

EvalMax ==
    /\ call.op = "none"
    /\ call' = EvalCall("Max",
                   TriangleCurvature_Max(hit.edge01, hit.edge02, hit.edge12,
                       hit.curvature01, hit.curvature02, hit.curvature12))
    /\ UNCHANGED <<f16round, cone, rayDiff, hit, steps>>

EvalDirClosestDP ==
    /\ call.op = "none"
    /\ call' = EvalCall("DirClosestDP",
                   TriangleCurvature_DirClosestDP(hit.rayDir, hit.edge01, hit.edge02,
                       hit.edge12, hit.curvature01, hit.curvature02, hit.curvature12))
    /\ UNCHANGED <<f16round, cone, rayDiff, hit, steps>>

EvalDirectional ==
    /\ call.op = "none"
    /\ call' = EvalCall("Directional",
                   TriangleCurvature_Directional(hit.rayDir, hit.edge01, hit.edge02,
                       hit.edge12, hit.curvature01, hit.curvature02, hit.curvature12))
    /\ UNCHANGED <<f16round, cone, rayDiff, hit, steps>>

\* The ellipse is computed for the unit directions, the triangles and the
\* curvatures for which its axes and the clipped edge lengths are rational.
EvalEllipseVis ==
    /\ call.op = "none"
    /\ hit.rayDir \in RayDirs
    /\ hit.positions \in AxisTriangles
    /\ <<hit.curvature01, hit.curvature02, hit.curvature12>> \in EllipseCurvatures
    /\ call' = EvalCall("EllipseVis",
                   TriangleCurvature_EllipseVis(hit.rayDir, getWidth(cone),
                       getSpreadAngle(cone), hit.edge01, hit.edge02, hit.edge12,
                       hit.curvature01, hit.curvature02, hit.curvature12))
    /\ UNCHANGED <<f16round, cone, rayDiff, hit, steps>>

EvalZero ==
    /\ call.op = "none"
    /\ call' = EvalCall("Zero",
                   TriangleCurvature_Zero(hit.edge01, hit.edge02, hit.edge12,
                       hit.curvature01, hit.curvature02, hit.curvature12))
    /\ UNCHANGED <<f16round, cone, rayDiff, hit, steps>>

NextSurface ==
    \/ ComputeSpreadAngleFromCurvatureIso
    \/ ComputeAnisotropicEllipseAxes
    \/ EvalAverage
    \/ EvalMax
    \/ EvalDirClosestDP
    \/ EvalDirectional
    \/ EvalEllipseVis
    \/ EvalZero

SpecSurface ==
    InitSurface /\ [][NextSurface]_vars

(***************************************************************************)
(* The texture level of detail of a hit, from the ray cone.                *)
(***************************************************************************)
\* Cones at the hit: widths 0, 0.02 (as a half), 1/2, 1, 3 and -1.
LODCones ==
    { make(w, Q(1, 1024)) : w \in {Zero, Q(1, 50), Half, One, Three, Q(-1, 1)} }

TriLODConstants ==
    { Zero, Q(-3, 2) }

\* The hits whose orientation term is rational.
ExactLOD(D, N, moreDetailOnSlopes) ==
    moreDetailOnSlopes => SqrtExact(RAbs(Dot3(D, N)))

InitLOD ==
    /\ f16round = "rne"
    /\ cone \in LODCones
    /\ rayDiff = NoRayDiff
    /\ \E D \in RayDirs, N \in Normals : hit = [rayDir |-> D, normal |-> N]
    /\ call = [op |-> "none"]
    /\ steps = 0

ComputeLOD ==
    /\ call.op = "none"
    /\ \E t \in TriLODConstants, m \in BOOLEAN :
        /\ ExactLOD(hit.rayDir, hit.normal, m)
        /\ call' = [op |-> "computeLOD", rayCone |-> cone, triLODConstant |-> t,
                    rayDir |-> hit.rayDir, normal |-> hit.normal,
                    moreDetailOnSlopes |-> m,
                    ret |-> computeLOD(cone, t, hit.rayDir, hit.normal, m)]
    /\ UNCHANGED <<f16round, cone, rayDiff, hit, steps>>

NextLOD ==
    ComputeLOD

SpecLOD ==
    InitLOD /\ [][NextLOD]_vars

(***************************************************************************)
(* White balance: the colour of a blackbody of a given temperature.        *)
(***************************************************************************)
\* Temperatures around each threshold, far outside the range, and infinite.
Temperatures ==
    { Q(-1, 1), Zero, One, Q(1666, 1), Q(16669, 10), Q(1667, 1), Q(16671, 10),
      Q(2000, 1), Q(2221, 1), Q(2222, 1), Q(2223, 1), Q(3999, 1), Q(39999, 10),
      Q(4000, 1), Q(4001, 1), Q(6500, 1), Q(24999, 1), Q(25000, 1), Q(250001, 10),
      Q(25001, 1), Q(100000, 1), PosInf, NegInf }

Luminances ==
    { Zero, One, Two }

InitColor ==
    /\ f16round = "rne"
    /\ cone = NoCone
    /\ rayDiff = NoRayDiff
    /\ \E T \in Temperatures, Y \in Luminances : hit = [T |-> T, Y |-> Y]
    /\ call = [op |-> "none"]
    /\ steps = 0

ColorTemperatureToXYZ ==
    /\ call.op = "none"
    /\ call' = [op |-> "colorTemperatureToXYZ", T |-> hit.T, Y |-> hit.Y,
                ret |-> colorTemperatureToXYZ(hit.T, hit.Y)]
    /\ UNCHANGED <<f16round, cone, rayDiff, hit, steps>>

CalculateWhiteBalanceTransformRGB_Rec709 ==
    /\ call.op = "none"
    /\ call' = [op |-> "calculateWhiteBalanceTransformRGB_Rec709", T |-> hit.T,
                ret |-> calculateWhiteBalanceTransformRGB_Rec709(hit.T)]
    /\ UNCHANGED <<f16round, cone, rayDiff, hit, steps>>

NextColor ==
    \/ ColorTemperatureToXYZ
    \/ CalculateWhiteBalanceTransformRGB_Rec709

SpecColor ==
    InitColor /\ [][NextColor]_vars

(***************************************************************************)
(* Reflection of a ray differential at a hit: the vertex data is prepared  *)
(* in world space, then the differential is reflected.                     *)
(***************************************************************************)
Diag3(a, b, c) ==
    << <<a, Zero, Zero>>, <<Zero, b, Zero>>, <<Zero, Zero, c>> >>

\* World matrix and its inverse transpose: identity, a mirror in z, a scale by 1/2.
WorldTransforms ==
    { [worldMat |-> Diag3(One, One, One), worldInvTransposeMat |-> Diag3(One, One, One)],
      [worldMat |-> Diag3(One, One, Q(-1, 1)),
       worldInvTransposeMat |-> Diag3(One, One, Q(-1, 1))],
      [worldMat |-> Diag3(Half, Half, Half), worldInvTransposeMat |-> Diag3(Two, Two, Two)] }

\* Object-space vertex normals: a flat triangle for each normal, and a bent one.
VertexNormals ==
    { <<N, N, N>> : N \in Normals }
        \cup { << <<Zero, Zero, One>>, <<Q(3, 5), Zero, Q(4, 5)>>, <<Zero, Q(3, 5), Q(4, 5)>> >> }

VertexBarycentrics ==
    { <<One, Zero, Zero>>, <<Half, Q(1, 4), Q(1, 4)>> }

TriangleVertices(n) ==
    << [position |-> VZero3, normal |-> n[1], texCrd |-> <<Zero, Zero>>],
       [position |-> <<Three, Zero, Zero>>, normal |-> n[2], texCrd |-> <<One, Zero>>],
       [position |-> <<Zero, Q(4, 1), Zero>>, normal |-> n[3], texCrd |-> <<Zero, One>>] >>

InitReflect ==
    /\ f16round = "rne"
    /\ cone = NoCone
    /\ rayDiff \in InitRayDiffs
    /\ \E D \in RayDirs, n \in VertexNormals, b \in VertexBarycentrics, w \in WorldTransforms :
        hit = [rayDir |-> D, vertices |-> TriangleVertices(n), barycentrics |-> b,
               worldMat |-> w.worldMat, worldInvTransposeMat |-> w.worldInvTransposeMat,
               dBarydx |-> <<Half, Zero>>, dBarydy |-> <<Zero, Q(1, 4)>>,
               prepared |-> NotDone]
    /\ call = [op |-> "none"]
    /\ steps = 0

PrepareVerticesForRayDiffs ==
    /\ ~hit.prepared.done
    /\ \E r \in {prepareVerticesForRayDiffs(hit.rayDir, hit.vertices, hit.worldMat,
                                            hit.worldInvTransposeMat, hit.barycentrics)} :
           /\ hit' = [hit EXCEPT !.prepared =
                         [done |-> TRUE, normals |-> r.normals,
                          unnormalizedN |-> r.unnormalizedN]]
           /\ call' = [op |-> "prepareVerticesForRayDiffs", rayDir |-> hit.rayDir,
                       barycentrics |-> hit.barycentrics, ret |-> r]
    /\ UNCHANGED <<f16round, cone, rayDiff, steps>>

\* v.normalW is the unit interpolated normal, with either sign (double-sided
\* surfaces); the hits reflected are those whose interpolated normal has a rational
\* length.
ReflectRayDifferential ==
    /\ hit.prepared.done
    /\ call.op = "prepareVerticesForRayDiffs"
    /\ SqrtExact(Dot3(hit.prepared.unnormalizedN, hit.prepared.unnormalizedN))
    /\ \E sgn \in {One, Q(-1, 1)} :
        \E nW \in {VScale(Normalize3(hit.prepared.unnormalizedN), sgn)} :
        \E r \in {reflectRayDifferential(rayDiff, hit.rayDir, hit.prepared.unnormalizedN, nW,
                                          hit.dBarydx, hit.dBarydy, hit.prepared.normals)} :
           /\ rayDiff' = r
           /\ call' = [op |-> "reflectRayDifferential", rayDiff |-> rayDiff,
                       rayDir |-> hit.rayDir,
                       nonNormalizedInterpolatedNormalW |-> hit.prepared.unnormalizedN,
                       normalizedInterpolatedNormalW |-> nW,
                       normalsW |-> hit.prepared.normals, ret |-> r]
    /\ UNCHANGED <<f16round, cone, hit, steps>>

NextReflect ==
    \/ PrepareVerticesForRayDiffs
    \/ ReflectRayDifferential

SpecReflect ==
    InitReflect /\ [][NextReflect]_vars

(***************************************************************************)
(* Barycentric differentials at a hit and the attribute gradients they     *)
(* give (prepareRayDiffAtHitPoint after the vertices are prepared).        *)
(***************************************************************************)
\* World-space triangles [edge01, edge02, faceNormalW]: in the z = 0 plane seen
\* from both sides, skewed, tilted, and one whose edges are parallel.
BaryTriangles ==
    { [edge01 |-> <<Three, Zero, Zero>>, edge02 |-> <<Zero, Q(4, 1), Zero>>,
       faceNormalW |-> <<Zero, Zero, One>>],
      [edge01 |-> <<Three, Zero, Zero>>, edge02 |-> <<Zero, Q(4, 1), Zero>>,
       faceNormalW |-> <<Zero, Zero, Q(-1, 1)>>],
      [edge01 |-> <<Three, Zero, Zero>>, edge02 |-> <<Three, Q(4, 1), Zero>>,
       faceNormalW |-> <<Zero, Zero, One>>],
      [edge01 |-> <<One, Zero, Zero>>, edge02 |-> <<One, Q(4, 1), Q(-3, 1)>>,
       faceNormalW |-> <<Zero, Q(3, 5), Q(4, 5)>>],
      [edge01 |-> <<One, Zero, Zero>>, edge02 |-> <<Two, Zero, Zero>>,
       faceNormalW |-> <<Zero, Zero, One>>] }

\* Coefficients (a, b, c) of an origin differential a * edge01 + b * edge02 + c * faceNormalW.
BaryCoefficients ==
    { <<Zero, Zero, Zero>>, <<One, Zero, Zero>>, <<Half, Q(-1, 4), Zero>>,
      <<Q(1, 8), Q(3, 8), Two>>, <<Q(-2, 1), Q(1, 3), Q(-1, 1)>> }

\* Texture coordinates of the three vertices.
VertexTxcoords ==
    { << <<Zero, Zero>>, <<One, Zero>>, <<Zero, One>> >>,
      << <<Half, Half>>, <<Two, Q(1, 4)>>, <<Q(-1, 1), Three>> >> }

originDifferential(t, c) ==
    VAdd(VAdd(VScale(t.edge01, c[1]), VScale(t.edge02, c[2])), VScale(t.faceNormalW, c[3]))

InitBary ==
    /\ f16round = "rne"
    /\ cone = NoCone
    /\ \E t \in BaryTriangles, cx \in BaryCoefficients, cy \in BaryCoefficients,
          D \in {<<Zero, Zero, Q(-1, 1)>>, <<Q(3, 5), Zero, Q(-4, 5)>>},
          tx \in VertexTxcoords :
        /\ rayDiff = makeRayDiff(originDifferential(t, cx), originDifferential(t, cy),
                                 <<Q(1, 8), Zero, Zero>>, <<Zero, Q(1, 8), Zero>>)
        /\ hit = [rayDir |-> D, edge01 |-> t.edge01, edge02 |-> t.edge02,
                  faceNormalW |-> t.faceNormalW, cx |-> cx, cy |-> cy, txcoords |-> tx,
                  bary |-> NotDone]
    /\ call = [op |-> "none"]
    /\ steps = 0

ComputeBarycentricDifferentials ==
    /\ ~hit.bary.done
    /\ \E r \in {computeBarycentricDifferentials(rayDiff, hit.rayDir, hit.edge01, hit.edge02,
                                                 hit.faceNormalW)} :
           /\ hit' = [hit EXCEPT !.bary =
                         [done |-> TRUE, dBarydx |-> r.dBarydx, dBarydy |-> r.dBarydy]]
           /\ call' = [op |-> "computeBarycentricDifferentials", rayDiff |-> rayDiff,
                       edge01 |-> hit.edge01, edge02 |-> hit.edge02,
                       faceNormalW |-> hit.faceNormalW, ret |-> r]
    /\ UNCHANGED <<f16round, cone, rayDiff, steps>>

InterpolateDifferentials ==
    /\ hit.bary.done
    /\ call.op = "computeBarycentricDifferentials"
    /\ call' = [op |-> "interpolateDifferentials", dBarydx |-> hit.bary.dBarydx,
                dBarydy |-> hit.bary.dBarydy, vertexValues |-> hit.txcoords,
                ret |-> interpolateDifferentials(hit.bary.dBarydx, hit.bary.dBarydy,
                                                 hit.txcoords)]
    /\ UNCHANGED <<f16round, cone, rayDiff, hit, steps>>

NextBary ==
    \/ ComputeBarycentricDifferentials
    \/ InterpolateDifferentials

SpecBary ==
    InitBary /\ [][NextBary]_vars

(***************************************************************************)
(* The three formulations of the spread angle from curvature, evaluated on *)
(* the same hit (one build per TEXLOD_SPREADANGLE_FROM_CURVATURE_MODE).    *)
(***************************************************************************)
SmallCurvatures ==
    { Zero, Q(1, 64), Q(-1, 64), Q(1, 128), Q(-1, 256) }

ModeConeWidths ==
    { Zero, Half, One }

SpreadAngleModes ==
    { "RTG1", "ARC_LENGTH_UNOPTIMIZED", "ARC_LENGTH_OPTIMIZED" }

\* The hits at which atan and asin are evaluated: curvature * width / (2 dn) is small.
SmallCurvatureScaled(h) ==
    SmallAngle(RDiv(RMul(RMul(h.curvature, h.rayConeWidth), Half),
                    clampDn(RNeg(Dot3(h.rayDir, h.normal)))))

InitModes ==
    /\ f16round = "rne"
    /\ cone = NoCone
    /\ rayDiff = NoRayDiff
    /\ \E k \in SmallCurvatures, w \in ModeConeWidths, D \in RayDirs, N \in Normals :
        hit = [curvature |-> k, rayConeWidth |-> w, rayDir |-> D, normal |-> N,
               res |-> [m \in SpreadAngleModes |-> NotDone]]
    /\ call = [op |-> "none"]
    /\ steps = 0

SpreadAngleRTG1 ==
    /\ ~hit.res["RTG1"].done
    /\ SmallCurvatureScaled(hit)
    /\ \E r \in {computeSpreadAngleFromCurvatureIso_RTG1(hit.curvature, hit.rayConeWidth,
                   hit.rayDir, hit.normal)} :
        /\ hit' = [hit EXCEPT !.res["RTG1"] = [done |-> TRUE, ret |-> r]]
        /\ call' = [op |-> "computeSpreadAngleFromCurvatureIso", mode |-> "RTG1",
                    curvature |-> hit.curvature, rayConeWidth |-> hit.rayConeWidth,
                    rayDir |-> hit.rayDir, normal |-> hit.normal, ret |-> r]
    /\ UNCHANGED <<f16round, cone, rayDiff, steps>>

SpreadAngleArcLengthUnoptimized ==
    /\ ~hit.res["ARC_LENGTH_UNOPTIMIZED"].done
    /\ SmallCurvatureScaled(hit)
    /\ \E r \in {computeSpreadAngleFromCurvatureIso_ArcLength(hit.curvature, hit.rayConeWidth,
                   hit.rayDir, hit.normal)} :
        /\ hit' = [hit EXCEPT !.res["ARC_LENGTH_UNOPTIMIZED"] = [done |-> TRUE, ret |-> r]]
        /\ call' = [op |-> "computeSpreadAngleFromCurvatureIso", mode |-> "ARC_LENGTH_UNOPTIMIZED",
                    curvature |-> hit.curvature, rayConeWidth |-> hit.rayConeWidth,
                    rayDir |-> hit.rayDir, normal |-> hit.normal, ret |-> r]
    /\ UNCHANGED <<f16round, cone, rayDiff, steps>>

SpreadAngleArcLengthOptimized ==
    /\ ~hit.res["ARC_LENGTH_OPTIMIZED"].done
    /\ SmallCurvatureScaled(hit)
    /\ \E r \in {computeSpreadAngleFromCurvatureIso(hit.curvature, hit.rayConeWidth,
                   hit.rayDir, hit.normal)} :
        /\ hit' = [hit EXCEPT !.res["ARC_LENGTH_OPTIMIZED"] = [done |-> TRUE, ret |-> r]]
        /\ call' = [op |-> "computeSpreadAngleFromCurvatureIso", mode |-> "ARC_LENGTH_OPTIMIZED",
                    curvature |-> hit.curvature, rayConeWidth |-> hit.rayConeWidth,
                    rayDir |-> hit.rayDir, normal |-> hit.normal, ret |-> r]
    /\ UNCHANGED <<f16round, cone, rayDiff, steps>>

NextModes ==
    \/ SpreadAngleRTG1
    \/ SpreadAngleArcLengthUnoptimized
    \/ SpreadAngleArcLengthOptimized

SpecModes ==
    InitModes /\ [][NextModes]_vars

Next ==
    NextCone

Spec ==
    InitCone /\ [][Next]_vars

(***************************************************************************)
(* Half-precision rounding, stated from f16tof32 alone: the code c is a    *)
(* rounding of x when x lies strictly between the two half-precision       *)
(* numbers next to the one c encodes (so c encodes x itself whenever x is  *)
(* a half-precision number).  Codes are ordered by the value they encode.  *)
(***************************************************************************)
HalfOrd(c) ==
    IF c < 32768 THEN c ELSE 32768 - c

HalfAt(k) ==
    f16tof32(IF k >= 0 THEN k ELSE 32768 - k)

RoundsTo(x, c) ==
    IF IsNaN(x) THEN IsNaN(f16tof32(c))
    ELSE LET k == HalfOrd(c)
         IN  /\ k \in -31744..31744
             /\ k > -31744 => RLt(HalfAt(k - 1), x)
             /\ k < 31744 => RLt(x, HalfAt(k + 1))

(***************************************************************************)
(* C4.  propagateDistance.                                                 *)
(***************************************************************************)
C4_ExactWidth ==
    RAdd(RMul(getSpreadAngle(call.rayCone), call.hitT), getWidth(call.rayCone))

\* C4 as stated: propagateDistance(hitT) returns width = spreadAngle * hitT + width
\* and the input spreadAngle, for every cone and every hitT.
C4_Original ==
    call.op = "propagateDistance" =>
        /\ getWidth(call.ret) = C4_ExactWidth
        /\ getSpreadAngle(call.ret) = getSpreadAngle(call.rayCone)

\* C4 amended: the returned width is spreadAngle * hitT + width rounded to half
\* precision by the FP16 payload packing (that value itself whenever it is a
\* half-precision number), the spread angle is the input spread angle, and a cone
\* with spreadAngle = 0 keeps its width for every finite hitT.
C4_PropagateDistanceRounded ==
    call.op = "propagateDistance" =>
        /\ RoundsTo(C4_ExactWidth, call.ret.widthSpreadAngleFP16[1])
        /\ getSpreadAngle(call.ret) = getSpreadAngle(call.rayCone)
        /\ (getSpreadAngle(call.rayCone) = Zero =>
                getWidth(call.ret) = getWidth(call.rayCone))

C4_Witness ==
    /\ call.op = "propagateDistance"
    /\ getSpreadAngle(call.rayCone) # Zero
    /\ call.hitT # Zero
    /\ IsFinite(C4_ExactWidth)
    /\ getWidth(call.ret) # C4_ExactWidth

(***************************************************************************)
(* C5.  addToSpreadAngle.                                                  *)
(***************************************************************************)
C5_ExactAngle ==
    RAdd(getSpreadAngle(call.rayCone), call.surfaceSpreadAngle)

\* C5 as stated: addToSpreadAngle(s) returns spreadAngle = spreadAngle + s and the
\* input width, for every cone and every s.
C5_Original ==
    call.op = "addToSpreadAngle" =>
        /\ getSpreadAngle(call.ret) = C5_ExactAngle
        /\ getWidth(call.ret) = getWidth(call.rayCone)

\* C5 amended: the returned spread angle is spreadAngle + s rounded to half
\* precision by the FP16 payload packing (that value itself whenever it is a
\* half-precision number) and the width is the input width.
C5_AddToSpreadAngleRounded ==
    call.op = "addToSpreadAngle" =>
        /\ RoundsTo(C5_ExactAngle, call.ret.widthSpreadAngleFP16[2])
        /\ call.ret.widthSpreadAngleFP16[1] = call.rayCone.widthSpreadAngleFP16[1]
        /\ getWidth(call.ret) = getWidth(call.rayCone)

C5_Witness ==
    /\ call.op = "addToSpreadAngle"
    /\ call.surfaceSpreadAngle # Zero
    /\ getSpreadAngle(call.rayCone) # Zero
    /\ getSpreadAngle(call.ret) # C5_ExactAngle

(***************************************************************************)
(* C6.  RayDiff.propagate.                                                 *)
(***************************************************************************)
\* The origin differential of C6: (dO + t * dD) + D * dt with
\* dt = -dot(dO + t * dD, N) / dot(D, N).
C6_Origin(dO, dD) ==
    LET q == VAdd(dO, VScale(dD, call.t))
        dt == RDiv(RNeg(Dot3(q, call.N)), Dot3(call.D, call.N))
    IN  VAdd(q, VScale(call.D, dt))

\* The same without a division: (dO' - q) * dot(D, N) = -D * dot(q, N).
C6_OriginCrossMultiplied(dO, dD, dOnew) ==
    LET q == VAdd(dO, VScale(dD, call.t))
    IN  VScale(VSub(dOnew, q), Dot3(call.D, call.N))
            = VScale(call.D, RNeg(Dot3(q, call.N)))

\* C6: propagate(O, D, t, N) returns dO' = (dO + t * dD) + D * dt with
\* dt = -dot(dO + t * dD, N) / dot(D, N), for x and for y, and returns the input
\* dDdx and dDdy.
C6_Propagate ==
    call.op = "propagate" =>
        /\ call.ret.dOdx = C6_Origin(call.rayDiff.dOdx, call.rayDiff.dDdx)
        /\ call.ret.dOdy = C6_Origin(call.rayDiff.dOdy, call.rayDiff.dDdy)
        /\ VFinite(call.ret.dOdx) =>
               C6_OriginCrossMultiplied(call.rayDiff.dOdx, call.rayDiff.dDdx, call.ret.dOdx)
        /\ VFinite(call.ret.dOdy) =>
               C6_OriginCrossMultiplied(call.rayDiff.dOdy, call.rayDiff.dDdy, call.ret.dOdy)
        /\ call.ret.dDdx = call.rayDiff.dDdx
        /\ call.ret.dDdy = call.rayDiff.dDdy

C6_Witness ==
    /\ call.op = "propagate"
    /\ call.t # Zero
    /\ call.rayDiff.dDdx # VZero3
    /\ VFinite(call.ret.dOdx)
    /\ Dot3(call.rayDiff.dOdx, call.N) # Zero
    /\ call.ret.dOdx # call.rayDiff.dOdx
    /\ call.ret.dOdx # VAdd(call.rayDiff.dOdx, VScale(call.rayDiff.dDdx, call.t))

(***************************************************************************)
(* C8.  Guarded divisions: RayDiff.propagate at a grazing hit.             *)
(***************************************************************************)
C8_FiniteIn ==
    /\ VFinite(call.rayDiff.dOdx)
    /\ VFinite(call.rayDiff.dOdy)
    /\ VFinite(call.rayDiff.dDdx)
    /\ VFinite(call.rayDiff.dDdy)

C8_FiniteOut ==
    /\ VFinite(call.ret.dOdx)
    /\ VFinite(call.ret.dOdy)

SinSqRefracted(rayDir, normal, eta) ==
    RMul(RMul(eta, eta), RSub(One, RMul(Dot3(normal, rayDir), Dot3(normal, rayDir))))

\* C1: refractRayCone returns false exactly when eta^2 * (1 - dot(normal, rayDir)^2) > 1
\* and true for every other rayDir, normal and eta, the boundary (= 1) included.
C1_RefractRayConeFlag ==
    call.op = "refractRayCone" =>
        (call.ret <=> ~RGt(SinSqRefracted(call.rayDir, call.normal, call.eta), One))

C1_Witness ==
    /\ call.op = "refractRayCone"
    /\ SinSqRefracted(call.rayDir, call.normal, call.eta) = One
    /\ call.ret
    /\ Dot3(call.normal, call.rayDir) # Zero

\* C2: called with the same rayDir, normal and eta, refractRayCone and
\* refractRayDifferential return the same flag, and both return false whenever
\* eta^2 * sin^2(theta) > 1.
C2_SameFlag ==
    (hit.coneRes.done /\ hit.diffRes.done) =>
        /\ hit.coneRes.ret = hit.diffRes.ret
        /\ (RGt(SinSqRefracted(hit.rayDir, hit.normal, hit.eta), One) =>
                ~hit.coneRes.ret /\ ~hit.diffRes.ret)

C2_Witness ==
    /\ hit.coneRes.done
    /\ hit.diffRes.done
    /\ RGt(SinSqRefracted(hit.rayDir, hit.normal, hit.eta), One)
    /\ ~hit.coneRes.ret
    /\ ~hit.diffRes.ret

\* C3 as stated: for eta = 1 and every unit rayDir and unit normal, both functions
\* return true, output rayDir as the refracted direction, and leave the cone's width
\* and spread angle and the differential's dOdx, dOdy, dDdx, dDdy unchanged.
C3_NoOpAtEtaOne ==
    hit.eta = One =>
        /\ hit.coneRes.done =>
            /\ hit.coneRes.ret
            /\ hit.coneRes.refractedRayDir = hit.rayDir
            /\ getWidth(hit.coneRes.after) = getWidth(hit.coneRes.before)
            /\ getSpreadAngle(hit.coneRes.after) = getSpreadAngle(hit.coneRes.before)
        /\ hit.diffRes.done =>
            /\ hit.diffRes.ret
            /\ hit.diffRes.refractedDir = hit.rayDir
            /\ hit.diffRes.after = hit.diffRes.before

(***************************************************************************)
(* C7.  Curvature estimators on a flat triangle.                           *)
(***************************************************************************)
\* C7 as stated, for triangles of nonzero area: with curvature01 = curvature02 =
\* curvature12 = 0, Average, Max, DirClosestDP, Directional and EllipseVis return
\* exactly 0 from eval for every ray direction, perpendicular to the triangle
\* included.
C7_ZeroCurvatureGivesZero ==
    (/\ call.op = "eval"
     /\ call.estimator \in {"Average", "Max", "DirClosestDP", "Directional", "EllipseVis"}
     /\ Cross(call.edge01, call.edge02) # VZero3
     /\ call.curvature01 = Zero
     /\ call.curvature02 = Zero
     /\ call.curvature12 = Zero) =>
        call.ret = Zero

(***************************************************************************)
(* C9.  The epsilon clamp of computeSpreadAngleFromCurvatureIso.           *)
(***************************************************************************)
\* C9 as stated: for every rayDir and normal, dot(rayDir, normal) = 0 included, the
\* divisor dn after the clamp has |dn| >= 1e-5 and the sign of -dot(rayDir, normal),
\* so the spread angle is computed without a division by zero.
C9_ClampedDivisor ==
    call.op = "computeSpreadAngleFromCurvatureIso" =>
        LET dn == clampDn(RNeg(Dot3(call.rayDir, call.normal)))
        IN  /\ RGe(RAbs(dn), Epsilon)
            /\ RSign(dn) = RSign(RNeg(Dot3(call.rayDir, call.normal)))
            /\ IsFinite(call.ret)

(***************************************************************************)
(* C10.  Degenerate triangles in computeAnisotropicEllipseAxes.            *)
(***************************************************************************)
\* dot(faceNormal, cross(edge01, edge02)) of the call: twice the triangle area.
C10_AreaDenominator ==
    Dot3(call.faceNormal, Cross(VSub(call.positions[2], call.positions[1]),
                                VSub(call.positions[3], call.positions[1])))

C10_GradientsFinite ==
    VFinite(call.ret.texGradientX) /\ VFinite(call.ret.texGradientY)

C11_AtHalfRadius ==
    computeAnisotropicEllipseAxes(call.intersectionPoint, call.faceNormal, call.rayConeDir,
        RMul(Half, call.rayConeRadiusAtIntersection), call.positions, call.txcoords,
        call.interpolatedTexCoordsAtIntersection)

\* C11: with the geometry, the texture coordinates and the hit texcoord (the
\* texture coordinates interpolated at the hit point) fixed, the gradients for cone
\* radius 2r are twice the gradients for r, component by component and hence in
\* magnitude, for every radius r > 0 and every incidence whose gradients are finite
\* (the call is the one with radius 2r).
C11_LinearInRadius ==
    (/\ call.op = "computeAnisotropicEllipseAxes"
     /\ RLt(Zero, call.rayConeRadiusAtIntersection)
     /\ C10_GradientsFinite) =>
        /\ call.ret.texGradientX = VScale(C11_AtHalfRadius.texGradientX, Two)
        /\ call.ret.texGradientY = VScale(C11_AtHalfRadius.texGradientY, Two)

\* The part of C11 that the code keeps: texGradientX is linear in the radius.
C11_AxisZeroLinear ==
    (/\ call.op = "computeAnisotropicEllipseAxes"
     /\ RLt(Zero, call.rayConeRadiusAtIntersection)
     /\ C10_GradientsFinite) =>
        call.ret.texGradientX = VScale(C11_AtHalfRadius.texGradientX, Two)

(***************************************************************************)
(* C12.  Reflection at a planar surface, at normal incidence.              *)
(***************************************************************************)
\* The call reflects at a planar surface (the three vertex normals are equal) with
\* the ray along the normal.
C12_PlanarNormalIncidence ==
    /\ call.op = "reflectRayDifferential"
    /\ call.normalsW[1] = call.normalsW[2]
    /\ call.normalsW[1] = call.normalsW[3]
    /\ Cross(call.rayDir, call.normalizedInterpolatedNormalW) = VZero3

\* v with its component along the unit normal n reversed.
C12_Mirrored(v, n) ==
    VSub(v, VScale(n, RMul(Two, Dot3(v, n))))

\* C12: at a planar surface and normal incidence reflectRayDifferential returns
\* dDdx and dDdy with only the component along the normal reversed, so with the
\* lengths of the input dDdx and dDdy, and returns dOdx and dOdy unchanged.
C12_ReflectPlanar ==
    C12_PlanarNormalIncidence =>
        /\ call.ret.dDdx = C12_Mirrored(call.rayDiff.dDdx, call.normalizedInterpolatedNormalW)
        /\ call.ret.dDdy = C12_Mirrored(call.rayDiff.dDdy, call.normalizedInterpolatedNormalW)
        /\ Dot3(call.ret.dDdx, call.ret.dDdx) = Dot3(call.rayDiff.dDdx, call.rayDiff.dDdx)
        /\ Dot3(call.ret.dDdy, call.ret.dDdy) = Dot3(call.rayDiff.dDdy, call.rayDiff.dDdy)
        /\ call.ret.dOdx = call.rayDiff.dOdx
        /\ call.ret.dOdy = call.rayDiff.dOdy

\* A planar hit at normal incidence whose direction differentials have a component
\* along the normal, so the reflection changes them.
C12_Witness ==
    /\ C12_PlanarNormalIncidence
    /\ call.ret.dDdx # call.rayDiff.dDdx
    /\ call.ret.dDdy # call.rayDiff.dDdy
    /\ call.rayDiff.dOdx # VZero3

(***************************************************************************)
(* C13.  computeLOD is monotone in the width and in the grazing angle.     *)
(***************************************************************************)
LodIsNaN(l) ==
    l.exp = NaN

\* a <= b for two levels of detail with the same triLODConstant: the order of
\* exp + log2(mant); a comparison with NaN is false.
LodLe(a, b) ==
    /\ ~LodIsNaN(a)
    /\ ~LodIsNaN(b)
    /\ \/ a.exp = b.exp /\ a.exp[2] = 0
       \/ a.exp[2] # 0 /\ b.exp[2] # 0 /\ RLt(a.exp, b.exp)
       \/ a.exp[2] # 0 /\ a.exp = b.exp /\ RLe(a.mant, b.mant)
       \/ a.exp = NegInf /\ b.exp # NegInf
       \/ b.exp = PosInf /\ a.exp # PosInf

\* The cones at least as wide as the cone of the call.
C13_WiderCones ==
    { rc \in LODCones : RLe(RAbs(getWidth(call.rayCone)), RAbs(getWidth(rc))) }

\* The hits at least as grazing as the hit of the call.
C13_MoreGrazingHits ==
    { h \in RayDirs \X Normals :
        /\ ExactLOD(h[1], h[2], call.moreDetailOnSlopes)
        /\ RLe(RAbs(Dot3(h[1], h[2])), RAbs(Dot3(call.rayDir, call.normal))) }

C13_LodOf(rc, D, N) ==
    computeLOD(rc, call.triLODConstant, D, N, call.moreDetailOnSlopes)

DirectionalCall ==
    /\ call.op = "eval"
    /\ call.estimator \in {"DirClosestDP", "Directional"}

\* |dot(rayDir, normalize(edge))| of the three edges of the call: 01, 02, 12.
Alignments ==
    << RAbs(Dot3(call.rayDir, Normalize3(call.edge01))),
       RAbs(Dot3(call.rayDir, Normalize3(call.edge02))),
       RAbs(Dot3(call.rayDir, Normalize3(call.edge12))) >>

Curvatures ==
    <<call.curvature01, call.curvature02, call.curvature12>>

\* The weight that estimator est gives an edge of alignment dOwn when blending it
\* with an edge of alignment dOther.
BlendWeight(est, dOwn, dOther) ==
    IF est = "DirClosestDP" THEN dOwn ELSE RAcos(dOther)

\* The blend of the curvatures ka, kb of two edges with alignments da, db.
BlendOfPair(est, ka, da, kb, db) ==
    weightedPair(ka, BlendWeight(est, da, db), kb, BlendWeight(est, db, da))

\* The blend of the two edges other than edge l (1: 01, 2: 02, 3: 12).
BlendWithout(est, l, k, d) ==
    IF l = 1 THEN BlendOfPair(est, k[2], d[2], k[3], d[3])
    ELSE IF l = 2 THEN BlendOfPair(est, k[1], d[1], k[3], d[3])
    ELSE BlendOfPair(est, k[1], d[1], k[2], d[2])

\* The more aligned of the two edges other than l has the larger weight.
MoreAlignedWeighsMore(est, l, d) ==
    \A i \in (1..3) \ {l}, j \in (1..3) \ {l} :
        RGt(d[i], d[j]) => RGe(BlendWeight(est, d[i], d[j]), BlendWeight(est, d[j], d[i]))

\* The estimator of the call evaluated with curvatures k.
EvalWith(est, k) ==
    IF est = "DirClosestDP"
    THEN TriangleCurvature_DirClosestDP(call.rayDir, call.edge01, call.edge02, call.edge12,
                                        k[1], k[2], k[3])
    ELSE TriangleCurvature_Directional(call.rayDir, call.edge01, call.edge02, call.edge12,
                                       k[1], k[2], k[3])

\* Edge l is a least aligned edge, the value returned is the blend of the other two,
\* and it does not change with the curvature of edge l.
ExcludesEdge(est, l, k, d) ==
    /\ \A i \in 1..3 : RLe(d[l], d[i])
    /\ call.ret = BlendWithout(est, l, k, d)
    /\ MoreAlignedWeighsMore(est, l, d)
    /\ EvalWith(est, [k EXCEPT ![l] = RAdd(k[l], One)]) = call.ret

\* C15: DirClosestDP.eval and Directional.eval blend the curvatures of the two
\* edges most aligned with the ray and never use the curvature of a least aligned
\* edge; of the two used, the more aligned one has a weight at least as large.
C15_BlendsTwoMostAligned ==
    (DirectionalCall /\ VFinite(Alignments)) =>
        \E l \in 1..3 : ExcludesEdge(call.estimator, l, Curvatures, Alignments)

\* Directional on a hit whose edge 01 is the least aligned, with three different
\* alignments and curvatures.
C15_Witness ==
    /\ DirectionalCall
    /\ call.estimator = "Directional"
    /\ VFinite(Alignments)
    /\ RLt(Alignments[1], Alignments[3])
    /\ RLt(Alignments[3], Alignments[2])
    /\ call.curvature01 # call.curvature02
    /\ call.curvature02 # call.curvature12
    /\ call.curvature01 # call.curvature12
    /\ IsFinite(call.ret)
    /\ call.ret # Zero

\* C16: when two edges tie for least aligned, below the third, the value returned
\* is the same whichever of the two is excluded, for arbitrary curvatures.
C16_ContinuousAtTie ==
    (DirectionalCall /\ VFinite(Alignments)) =>
        \A i \in 1..3, j \in 1..3 :
            (/\ i # j
             /\ Alignments[i] = Alignments[j]
             /\ \A m \in (1..3) \ {i, j} : RLt(Alignments[i], Alignments[m])) =>
                BlendWithout(call.estimator, i, Curvatures, Alignments)
                    = BlendWithout(call.estimator, j, Curvatures, Alignments)

(***************************************************************************)
(* C17.  Max returns a curvature of largest magnitude, with its sign.      *)
(***************************************************************************)
\* C17: TriangleCurvature_Max.eval returns one of the three curvatures, whose
\* absolute value is at least that of each of them, whatever the edges are.
C17_MaxMagnitude ==
    (call.op = "eval" /\ call.estimator = "Max") =>
        /\ call.ret \in {call.curvature01, call.curvature02, call.curvature12}
        /\ \A i \in 1..3 : RGe(RAbs(call.ret), RAbs(Curvatures[i]))
        /\ \A e \in {VZero3, call.edge12} :
              TriangleCurvature_Max(e, call.edge01, e, call.curvature01,
                                    call.curvature02, call.curvature12) = call.ret

\* Mixed signs with a tie in magnitude, and all curvatures negative.
C17_Witness ==
    /\ call.op = "eval"
    /\ call.estimator = "Max"
    /\ call.ret[1] < 0
    /\ \/ RNeg(call.ret) \in {call.curvature01, call.curvature02, call.curvature12}
       \/ \A i \in 1..3 : Curvatures[i][1] < 0

(***************************************************************************)
(* C18.  colorTemperatureToXYZ outside and inside its range.               *)
(***************************************************************************)
\* C18: T < 1667 and T > 25000 return (0, 0, 0) by the out-of-range path for every
\* Y; every T with 1667 <= T <= 25000 takes the polynomial path, whose x polynomial
\* switches at T = 4000 and whose y polynomial switches at T = 2222 and T = 4000.
C18_RangeAndPieces ==
    call.op = "colorTemperatureToXYZ" =>
        /\ (RLt(call.T, TMin) \/ RGt(call.T, TMax)) =>
              (call.ret.outOfRange /\ call.ret.XYZ = VZero3)
        /\ (RGe(call.T, TMin) /\ RLe(call.T, TMax)) =>
              /\ ~call.ret.outOfRange
              /\ call.ret.Y = call.Y
              /\ call.ret.xc = XcBelow4000 <=> RLt(call.T, <<4000, 1>>)
              /\ call.ret.xc = XcFrom4000 <=> RGe(call.T, <<4000, 1>>)
              /\ call.ret.yc = YcBelow2222 <=> RLt(call.T, <<2222, 1>>)
              /\ call.ret.yc = YcBelow4000 <=>
                    (RGe(call.T, <<2222, 1>>) /\ RLt(call.T, <<4000, 1>>))
              /\ call.ret.yc = YcFrom4000 <=> RGe(call.T, <<4000, 1>>)

\* A bound of the range, accepted.
C18_Witness ==
    /\ call.op = "colorTemperatureToXYZ"
    /\ call.T \in {TMin, TMax}
    /\ ~call.ret.outOfRange

(***************************************************************************)
(* C19.  The divisors of a successful refractRayDifferential.              *)
(***************************************************************************)
\* NdotDprime = sqrt(1 - k) of the call (Igehy eq. 17).
C19_NdotDprime ==
    RSqrt(RSub(One, SinSqRefracted(call.rayDir, call.normal, call.eta)))

\* NN * sqrt(NN) of the call, the divisor of computeNormalDifferentials.
C19_NormalDivisor ==
    RMul(Dot3(call.normal, call.normal), RSqrt(Dot3(call.normal, call.normal)))

\* C19: whenever refractRayDifferential returns true, no division it performs has
\* a zero denominator: NdotDprime of eta * NdotD / NdotDprime is not zero, the
\* critical angle included, and neither is NN * sqrt(NN).
C19_NoZeroDivisor ==
    (call.op = "refractRayDifferential" /\ call.ret) =>
        /\ C19_NdotDprime # Zero
        /\ C19_NormalDivisor # Zero

\* What the code keeps of C19: the divisor is zero only at the critical angle, and
\* then the direction differentials returned are not finite.
C19_ZeroOnlyAtCriticalAngle ==
    (call.op = "refractRayDifferential" /\ call.ret) =>
        /\ C19_NormalDivisor # Zero
        /\ C19_NdotDprime = Zero <=>
              SinSqRefracted(call.rayDir, call.normal, call.eta) = One
        /\ C19_NdotDprime = Zero =>
              ~(VFinite(hit.diffRes.after.dDdx) /\ VFinite(hit.diffRes.after.dDdy))

(***************************************************************************)
(* C20.  Total internal reflection leaves the footprint as it was.         *)
(***************************************************************************)
\* C20: when refractRayCone or refractRayDifferential returns false, the cone or
\* the ray differential is exactly what was passed in and the refracted direction
\* that is output is (0, 0, 0).
C20_UntouchedOnTIR ==
    /\ (hit.coneRes.done /\ ~hit.coneRes.ret) =>
          /\ hit.coneRes.after = hit.coneRes.before
          /\ cone = hit.coneRes.before
          /\ hit.coneRes.refractedRayDir = VZero3
    /\ (hit.diffRes.done /\ ~hit.diffRes.ret) =>
          /\ hit.diffRes.after = hit.diffRes.before
          /\ rayDiff = hit.diffRes.before
          /\ hit.diffRes.refractedDir = VZero3

\* Both footprints were refused at a hit, with a cone of non-zero width and a ray
\* differential that is not zero.
C20_Witness ==
    /\ hit.coneRes.done
    /\ hit.diffRes.done
    /\ ~hit.coneRes.ret
    /\ ~hit.diffRes.ret
    /\ getWidth(cone) # Zero
    /\ rayDiff.dOdx # VZero3

(***************************************************************************)
(* C14.  One sign convention for the normals of a hit.                     *)
(***************************************************************************)
\* C14: after prepareVerticesForRayDiffs the interpolated normal is the barycentric
\* blend of the returned normals and does not face along the ray.
C14_OneSignConvention ==
    call.op = "prepareVerticesForRayDiffs" =>
        /\ call.ret.unnormalizedN = blendNormals(call.ret.normals, call.barycentrics)
        /\ RLe(Dot3(call.ret.unnormalizedN, call.rayDir), Zero)

\* A hit from behind: the normals were negated.
C14_Witness ==
    /\ call.op = "prepareVerticesForRayDiffs"
    /\ call.ret.normals[1] = VNeg(MulRow3(hit.vertices[1].normal, hit.worldInvTransposeMat))
    /\ call.ret.normals[1] # call.ret.normals[2]
    /\ RLt(Dot3(call.ret.unnormalizedN, call.rayDir), Zero)

(***************************************************************************)
(* C21.  The two families refract a ray into the same direction.           *)
(***************************************************************************)
\* eta * rayDir - mu * N with mu = eta * (N.D) + sqrt(1 - eta^2 * (1 - (N.D)^2)).
C21_Direction ==
    VSub(VScale(hit.rayDir, hit.eta),
         VScale(hit.normal,
                RAdd(RMul(hit.eta, Dot3(hit.normal, hit.rayDir)),
                     RSqrt(RSub(One, SinSqRefracted(hit.rayDir, hit.normal, hit.eta))))))

\* C21: at a hit where both refractions succeed, the refracted direction written
\* by refractRayCone (through refractWithTIR) and the one written by
\* refractRayDifferential are the same vector, eta * rayDir - mu * N.
C21_SameDirection ==
    (hit.coneRes.done /\ hit.diffRes.done /\ hit.coneRes.ret /\ hit.diffRes.ret) =>
        /\ hit.coneRes.refractedRayDir = hit.diffRes.refractedDir
        /\ hit.diffRes.refractedDir = C21_Direction

\* An oblique hit on a denser or thinner medium: the ray is bent.
C21_Witness ==
    /\ hit.coneRes.done
    /\ hit.diffRes.done
    /\ hit.coneRes.ret
    /\ hit.diffRes.ret
    /\ hit.eta # One
    /\ Cross(hit.rayDir, hit.normal) # VZero3
    /\ Dot3(hit.rayDir, hit.normal) # Zero
    /\ VFinite(hit.diffRes.refractedDir)
    /\ hit.diffRes.refractedDir # hit.rayDir

(***************************************************************************)
(* C22.  propagate leaves the origin differentials in the hit plane.       *)
(***************************************************************************)
\* C22: after propagate(O, D, t, N) of a finite ray differential with
\* dot(D, N) # 0, dot(dOdx', N) = 0 and dot(dOdy', N) = 0, and propagating the
\* result again with t = 0 and the same D and N returns it unchanged.
C22_InHitPlane ==
    (call.op = "propagate" /\ C8_FiniteIn /\ Dot3(call.D, call.N) # Zero) =>
        /\ Dot3(call.ret.dOdx, call.N) = Zero
        /\ Dot3(call.ret.dOdy, call.N) = Zero
        /\ propagate(call.ret, call.O, call.D, Zero, call.N) = call.ret

\* An oblique hit after a positive distance, reached with origin and direction
\* differentials that both have a component along N.
C22_Witness ==
    /\ call.op = "propagate"
    /\ C8_FiniteIn
    /\ Dot3(call.D, call.N) # Zero
    /\ Cross(call.D, call.N) # VZero3
    /\ call.t # Zero
    /\ Dot3(call.rayDiff.dOdx, call.N) # Zero
    /\ Dot3(call.rayDiff.dDdx, call.N) # Zero
    /\ Dot3(call.rayDiff.dDdy, call.N) # Zero
    /\ call.ret.dOdx # VZero3
    /\ call.ret.dOdy # VZero3

(***************************************************************************)
(* C23.  The barycentric differentials are the coordinates in the dual     *)
(* basis of the edges.                                                     *)
(***************************************************************************)
\* The edges of the hit are linearly independent and faceNormalW is not in their plane.
C23_ProperTriangle ==
    Dot3(hit.faceNormalW, Cross(hit.edge01, hit.edge02)) # Zero

C23_Lu ==
    Lu(hit.edge01, hit.edge02, hit.faceNormalW)

C23_Lv ==
    Lv(hit.edge01, hit.edge02, hit.faceNormalW)

\* The vertex values v with w added, vertex by vertex.
C23_SumOfValues(v, w) ==
    <<VAdd(v[1], w[1]), VAdd(v[2], w[2]), VAdd(v[3], w[3])>>

C23_Interpolated(v) ==
    interpolateDifferentials(call.dBarydx, call.dBarydy, v)

\* du * v1 + dv * v2 + dw * v0 with the third differential dw = -du - dv.
C23_WithThird(dBary, v) ==
    VAdd(VAdd(VScale(v[2], dBary[1]), VScale(v[3], dBary[2])),
         VScale(v[1], RSub(RNeg(dBary[1]), dBary[2])))

\* C23: for a proper triangle, dot(Lu, edge01) = 1, dot(Lu, edge02) = 0,
\* dot(Lv, edge02) = 1 and dot(Lv, edge01) = 0, an origin differential
\* a * edge01 + b * edge02 + c * faceNormal gets the barycentric differentials
\* (a, b), and interpolateDifferentials is linear in the vertex deltas, with the
\* third barycentric differential -du - dv.
C23_DualBasis ==
    /\ (call.op = "computeBarycentricDifferentials" /\ C23_ProperTriangle) =>
          /\ Dot3(C23_Lu, hit.edge01) = One
          /\ Dot3(C23_Lu, hit.edge02) = Zero
          /\ Dot3(C23_Lv, hit.edge02) = One
          /\ Dot3(C23_Lv, hit.edge01) = Zero
          /\ call.ret.dBarydx = <<hit.cx[1], hit.cx[2]>>
          /\ call.ret.dBarydy = <<hit.cy[1], hit.cy[2]>>
    /\ (call.op = "interpolateDifferentials" /\ C23_ProperTriangle) =>
          /\ call.ret.dx = C23_WithThird(call.dBarydx, call.vertexValues)
          /\ call.ret.dy = C23_WithThird(call.dBarydy, call.vertexValues)
          /\ \A w \in VertexTxcoords :
                /\ C23_Interpolated(C23_SumOfValues(call.vertexValues, w)).dx
                       = VAdd(call.ret.dx, C23_Interpolated(w).dx)
                /\ C23_Interpolated(C23_SumOfValues(call.vertexValues, w)).dy
                       = VAdd(call.ret.dy, C23_Interpolated(w).dy)
          /\ \A k \in {<<Q(5, 1), Q(-7, 2)>>} :
                C23_Interpolated(C23_SumOfValues(call.vertexValues, <<k, k, k>>)) = call.ret

\* A skewed or tilted triangle, an origin differential with all three components,
\* different in x and y, and texture gradients that are not zero.
C23_Witness ==
    /\ call.op = "interpolateDifferentials"
    /\ C23_ProperTriangle
    /\ Dot3(hit.edge01, hit.edge02) # Zero
    /\ hit.cx[1] # hit.cx[2]
    /\ hit.cx[3] # Zero
    /\ hit.cx # hit.cy
    /\ call.dBarydx = <<hit.cx[1], hit.cx[2]>>
    /\ call.ret.dx # <<Zero, Zero>>
    /\ call.ret.dy # <<Zero, Zero>>

(***************************************************************************)
(* C24.  The normals handed to the reflection of a ray differential.       *)
(***************************************************************************)
\* The world-space vertex normals of the hit, as transformed and not negated.
C24_WorldNormals ==
    << MulRow3(hit.vertices[1].normal, hit.worldInvTransposeMat),
       MulRow3(hit.vertices[2].normal, hit.worldInvTransposeMat),
       MulRow3(hit.vertices[3].normal, hit.worldInvTransposeMat) >>

\* C24: on the reflection path reflectRayDifferential receives vertex normals and
\* an interpolated normal that were not negated, whatever the sign of
\* dot(interpolated normal, rayDir).
C24_FlipSkippedOnReflection ==
    call.op = "reflectRayDifferential" =>
        /\ call.normalsW = C24_WorldNormals
        /\ call.nonNormalizedInterpolatedNormalW
               = blendNormals(C24_WorldNormals, hit.barycentrics)

\* What the code does instead: the normals reach reflectRayDifferential negated
\* exactly when their blend faces along the ray.
C24_FlippedWhenFacingAlong ==
    call.op = "reflectRayDifferential" =>
        IF RGt(Dot3(blendNormals(C24_WorldNormals, hit.barycentrics), call.rayDir), Zero)
        THEN /\ call.normalsW = <<VNeg(C24_WorldNormals[1]), VNeg(C24_WorldNormals[2]),
                                  VNeg(C24_WorldNormals[3])>>
             /\ call.nonNormalizedInterpolatedNormalW
                    = VNeg(blendNormals(C24_WorldNormals, hit.barycentrics))
        ELSE /\ call.normalsW = C24_WorldNormals
             /\ call.nonNormalizedInterpolatedNormalW
                    = blendNormals(C24_WorldNormals, hit.barycentrics)

(***************************************************************************)
(* C25.  EllipseVis keeps the curvature that spreads the cone most.        *)
(***************************************************************************)
\* EllipseVis of the call for a cone of spread angle a.
C25_EvalAtAngle(a) ==
    TriangleCurvature_EllipseVis(call.rayDir, getWidth(cone), a, call.edge01, call.edge02,
        call.edge12, call.curvature01, call.curvature02, call.curvature12)

\* k0 and k1 of the call: with a spread angle beyond every surface spread the
\* comparison is decided by the sign of the surface spread alone, so one of the
\* two angles returns k0 and the other k1 whenever their spreads differ.
C25_ScaledCurvatures ==
    { C25_EvalAtAngle(Q(1000000, 1)), C25_EvalAtAngle(Q(-1000000, 1)) }

\* |rayConeAngle + surfaceSpread(k)|, with the spread angle that
\* computeSpreadAngleFromCurvatureIso adds for k.
C25_ResultingSpread(k) ==
    RAbs(RAdd(getSpreadAngle(cone),
              computeSpreadAngleFromCurvatureIso(k, getWidth(cone), call.rayDir,
                  Normalize3(Cross(call.edge01, call.edge02)))))

\* C25: EllipseVis.eval returns k0 or k1, and neither of them gives a larger
\* |rayConeAngle + surfaceSpread(k)| than the one returned.
C25_LargestResultingSpread ==
    (call.op = "eval" /\ call.estimator = "EllipseVis") =>
        /\ call.ret \in C25_ScaledCurvatures
        /\ \A k \in C25_ScaledCurvatures :
              ~RGt(C25_ResultingSpread(k), C25_ResultingSpread(call.ret))

\* What the code compares: |rayConeAngle + 2 * surfaceSpread(k)|.
C25_DoubledSpread(k) ==
    RAbs(RAdd(getSpreadAngle(cone),
              RMul(Two, computeSpreadAngleFromCurvatureIso(k, getWidth(cone), call.rayDir,
                            Normalize3(Cross(call.edge01, call.edge02))))))

C25_LargestDoubledSpread ==
    (call.op = "eval" /\ call.estimator = "EllipseVis") =>
        /\ call.ret \in C25_ScaledCurvatures
        /\ \A k \in C25_ScaledCurvatures :
              ~RGt(C25_DoubledSpread(k), C25_DoubledSpread(call.ret))

(***************************************************************************)
(* C26.  The default spread angle from curvature is the fast linear form.  *)
(***************************************************************************)
\* The spread angle of the call with its curvature and cone width scaled.
C26_Scaled(kScale, wScale) ==
    computeSpreadAngleFromCurvatureIso(RMul(call.curvature, kScale),
        RMul(call.rayConeWidth, wScale), call.rayDir, call.normal)

\* curvature * rayConeWidth / dn with the clamped dn of the call.
C26_Quotient ==
    RDiv(RMul(call.curvature, call.rayConeWidth),
         clampDn(RNeg(Dot3(call.rayDir, call.normal))))

\* C26: computeSpreadAngleFromCurvatureIso returns curvature * rayConeWidth / dn
\* with the clamped dn = -dot(rayDir, normal), returns 0 whenever curvature = 0 or
\* rayConeWidth = 0, and is linear in curvature and in rayConeWidth.
C26_FastLinear ==
    call.op = "computeSpreadAngleFromCurvatureIso" =>
        /\ call.ret = C26_Quotient
        /\ (call.curvature = Zero \/ call.rayConeWidth = Zero) => call.ret = Zero
        /\ \A c \in {Two, Q(-1, 2), Three} :
              /\ C26_Scaled(c, One) = RMul(c, call.ret)
              /\ C26_Scaled(One, c) = RMul(c, call.ret)

\* What the code keeps of C26: all of it whenever dot(rayDir, normal) is not
\* exactly zero, and the quotient (then NaN or infinite) when it is.
C26_FastLinearOffGrazing ==
    call.op = "computeSpreadAngleFromCurvatureIso" =>
        /\ call.ret = C26_Quotient
        /\ Dot3(call.rayDir, call.normal) # Zero =>
              /\ (call.curvature = Zero \/ call.rayConeWidth = Zero) => call.ret = Zero
              /\ \A c \in {Two, Q(-1, 2), Three} :
                    /\ C26_Scaled(c, One) = RMul(c, call.ret)
                    /\ C26_Scaled(One, c) = RMul(c, call.ret)
        /\ Dot3(call.rayDir, call.normal) = Zero => ~IsFinite(call.ret)

(***************************************************************************)
(* C27.  The three formulations of the spread angle from curvature.        *)
(***************************************************************************)
C27_AllDone ==
    \A m \in SpreadAngleModes : hit.res[m].done

C27_Rtg1 ==
    hit.res["RTG1"].ret

C27_ArcLength ==
    hit.res["ARC_LENGTH_UNOPTIMIZED"].ret

C27_Fast ==
    hit.res["ARC_LENGTH_OPTIMIZED"].ret

\* a is b to first order: within one part in 1000 of b, which covers the higher
\* order terms of atan and asin for |x| <= 1/64 and the rounding of sqrt(2.0).
C27_FirstOrderEqual(a, b) ==
    RLe(RAbs(RSub(a, b)), RMul(RAbs(b), <<1, 1000>>))

\* C27: for the same curvature, cone width, rayDir and normal with small
\* curvature * coneWidth / dn, the three formulations are all defined (curvature = 0
\* included), have the same sign and agree to first order, for both signs of dn.
C27_AgreeToFirstOrder ==
    C27_AllDone =>
        /\ IsFinite(C27_Rtg1) /\ IsFinite(C27_ArcLength) /\ IsFinite(C27_Fast)
        /\ RSign(C27_Rtg1) = RSign(C27_Fast)
        /\ RSign(C27_ArcLength) = RSign(C27_Fast)
        /\ C27_FirstOrderEqual(C27_Rtg1, C27_Fast)
        /\ C27_FirstOrderEqual(C27_ArcLength, C27_Fast)

\* What the code keeps of C27: the fast form is always defined at these hits; the
\* arc-length form equals it to first order except at curvature = 0, where it is
\* NaN; the RTG1 form has the sign of the curvature and 1/sqrt(2) of the magnitude.
C27_WhatAgrees ==
    C27_AllDone =>
        /\ IsFinite(C27_Fast)
        /\ IsFinite(C27_Rtg1)
        /\ IF hit.curvature = Zero
           THEN IsNaN(C27_ArcLength)
           ELSE C27_FirstOrderEqual(C27_ArcLength, C27_Fast)
        /\ C27_Rtg1 = RMul(RDiv(RAbs(C27_Fast), Sqrt2), RSign(hit.curvature))

(***************************************************************************)
(* C28.  Sequences of propagateDistance and addToSpreadAngle.              *)
(***************************************************************************)
\* x is a half-precision number: packing and unpacking gives it back.
C28_IsHalf(x) ==
    /\ IsFinite(x)
    /\ f16tof32(f32tof16(x)) = x

\* The cone (w0, a0) the path started from.
C28_Start ==
    IF hit.path = <<>> THEN cone ELSE hit.path[1].rayCone

RECURSIVE C28_SumOfAdded(_)
\* The sum of the surface spread angles added by the first n calls.
C28_SumOfAdded(n) ==
    IF n = 0 THEN Zero
    ELSE IF hit.path[n].op = "addToSpreadAngle"
         THEN RAdd(C28_SumOfAdded(n - 1), hit.path[n].arg)
         ELSE C28_SumOfAdded(n - 1)

RECURSIVE C28_Exact(_)
\* The <<width, spread angle>> after the first n calls in exact arithmetic, as long
\* as every value so far is a half-precision number, and <<NaN, NaN>> after that.
C28_Exact(n) ==
    IF n = 0 THEN <<getWidth(C28_Start), getSpreadAngle(C28_Start)>>
    ELSE LET p == C28_Exact(n - 1)
             e == hit.path[n]
             q == IF e.op = "propagateDistance"
                  THEN <<RAdd(RMul(p[2], e.arg), p[1]), p[2]>>
                  ELSE <<p[1], RAdd(p[2], e.arg)>>
         IN  IF IsNaN(p[1]) \/ ~C28_IsHalf(q[1]) \/ ~C28_IsHalf(q[2])
             THEN <<NaN, NaN>>
             ELSE q

\* No value of the path so far needed rounding.
C28_ExactArithmetic ==
    /\ C28_IsHalf(getWidth(C28_Start))
    /\ C28_IsHalf(getSpreadAngle(C28_Start))
    /\ ~IsNaN(C28_Exact(Len(hit.path))[1])

\* C28: along a sequence of propagateDistance and addToSpreadAngle calls from the
\* cone (w0, a0) in which no value needs rounding, the spread angle is a0 plus the
\* sum of the added surface spread angles, only propagateDistance changes the
\* width, and propagateDistance(t1) followed by propagateDistance(t2) gives the cone
\* of propagateDistance(t1 + t2).
C28_SequenceInExactArithmetic ==
    C28_ExactArithmetic =>
        /\ getSpreadAngle(cone)
               = RAdd(getSpreadAngle(C28_Start), C28_SumOfAdded(Len(hit.path)))
        /\ \A n \in 1..Len(hit.path) :
               hit.path[n].op = "addToSpreadAngle" =>
                   getWidth(hit.path[n].ret) = getWidth(hit.path[n].rayCone)
        /\ \A n \in 1..(Len(hit.path) - 1) :
               (/\ hit.path[n].op = "propagateDistance"
                /\ hit.path[n + 1].op = "propagateDistance") =>
                   hit.path[n + 1].ret
                       = propagateDistance(hit.path[n].rayCone,
                                           RAdd(hit.path[n].arg, hit.path[n + 1].arg))

C28_Witness ==
    /\ C28_ExactArithmetic
    /\ Len(hit.path) >= 2
    /\ \E n \in 1..(Len(hit.path) - 1) :
        /\ hit.path[n].op = "propagateDistance"
        /\ hit.path[n + 1].op = "propagateDistance"
        /\ hit.path[n].arg # Zero
        /\ hit.path[n + 1].arg # Zero
        /\ getSpreadAngle(hit.path[n].rayCone) # Zero
        /\ getWidth(hit.path[n].rayCone) # Zero
        /\ getWidth(hit.path[n + 1].ret) # getWidth(hit.path[n].ret)

(***************************************************************************)
(* C29.  The divisor of calculateWhiteBalanceTransformRGB_Rec709.          *)
(***************************************************************************)
\* C29: for every T the function is called with, T < 1667 and T > 25000 included,
\* every component of the source white ws, the divisor of scale = wd / ws, is
\* non-zero.  (For T inside the range ws is not evaluated here.)
C29_NoZeroDivisor ==
    call.op = "calculateWhiteBalanceTransformRGB_Rec709" =>
        (call.ret.ws.outOfRange => \A i \in 1..3 : call.ret.ws.LMS[i] # Zero)

\* What the code does: outside the range all three divisors are zero, and the
\* destination white is the white of T = 6500, which is inside the range.
C29_ZeroDivisorOutOfRange ==
    call.op = "calculateWhiteBalanceTransformRGB_Rec709" =>
        /\ ~call.ret.wd.outOfRange
        /\ call.ret.ws.outOfRange <=> (RLt(call.T, TMin) \/ RGt(call.T, TMax))
        /\ call.ret.ws.outOfRange => \A i \in 1..3 : call.ret.ws.LMS[i] = Zero
        /\ call.T = <<6500, 1>> => call.ret.ws = call.ret.wd

====
